---------------------------- MODULE Spec2Model ----------------------------
(***************************************************************************)
(* Model of the Split-Simplify tools: the Markdown rewrite pipeline of     *)
(* simplify_markdown.py and the section splitter of split_markdown.py.     *)
(*                                                                         *)
(* A line is a sequence of characters.  A character is a one-character     *)
(* string; a code point outside ASCII is written by its name:              *)
(*   "U+0060" backtick, "U+2014" em dash, "U+FE0F" variation selector 16, "U+1F441" eye,      *)
(*   "U+1F525" fire, "U+04xx" Cyrillic letters.                            *)
(* Regular expressions are modelled by what Python's re does with them:    *)
(* leftmost match, greedy quantifiers, backtracking, one left-to-right     *)
(* pass of non-overlapping substitutions.                                  *)
(***************************************************************************)
EXTENDS Naturals, Integers, Sequences, FiniteSets, TLC

(***************************************************************************)
(* Character classes                                                       *)
(***************************************************************************)
LowerAZ == {"a","b","c","d","e","f","g","h","i","j","k","l","m",
            "n","o","p","q","r","s","t","u","v","w","x","y","z"}
UpperAZ == {"A","B","C","D","E","F","G","H","I","J","K","L","M",
            "N","O","P","Q","R","S","T","U","V","W","X","Y","Z"}
Digits == {"0","1","2","3","4","5","6","7","8","9"}
\* Cyrillic letters of the reveal-label words, lower case and upper case
CyrLower == {"U+043F","U+043E","U+043A","U+0430","U+0437","U+0442","U+044C",
             "U+0432","U+0435","U+0440","U+0448","U+043D","U+0438","U+0443",
             "U+043B"}
CyrUpper == {"U+041F","U+041E","U+041A","U+0410","U+0417","U+0422","U+042C",
             "U+0412","U+0415","U+0420","U+0428","U+041D","U+0418","U+0423",
             "U+041B"}
UpperSeq == <<"A","B","C","D","E","F","G","H","I","J","K","L","M",
              "N","O","P","Q","R","S","T","U","V","W","X","Y","Z",
              "U+041F","U+041E","U+041A","U+0410","U+0417","U+0422","U+042C",
              "U+0412","U+0415","U+0420","U+0428","U+041D","U+0418","U+0423",
              "U+041B">>
LowerSeq == <<"a","b","c","d","e","f","g","h","i","j","k","l","m",
              "n","o","p","q","r","s","t","u","v","w","x","y","z",
              "U+043F","U+043E","U+043A","U+0430","U+0437","U+0442","U+044C",
              "U+0432","U+0435","U+0440","U+0448","U+043D","U+0438","U+0443",
              "U+043B">>
Tick == "U+0060"
Quote == "\""
EmDash == "U+2014"
VS16 == "U+FE0F"
Eye == "U+1F441"
\* members of the emoji ranges of fix_emoji_at_list_start
EmojiChars == {"U+1F441", "U+1F525"}

\* str.lower() of one character
LowerChar(c) ==
    IF c \in UpperAZ \cup CyrUpper
    THEN LowerSeq[CHOOSE k \in 1..Len(UpperSeq) : UpperSeq[k] = c]
    ELSE c
\* str.lower()
Lower(s) == [k \in 1..Len(s) |-> LowerChar(s[k])]
\* \s
IsSpace(c) == c \in {" ", "\t", "\n"}
\* \d
IsDigit(c) == c \in Digits
\* \w
IsWord(c) == c \in LowerAZ \cup UpperAZ \cup Digits \cup {"_"} \cup CyrLower \cup CyrUpper
NotStar(c) == c # "*"
NotTick(c) == c # Tick
NotLt(c) == c # "<"
NotRBracket(c) == c # "]"
NotRParen(c) == c # ")"
IsLowerAZ(c) == c \in LowerAZ
IsLetterAZ(c) == c \in LowerAZ \cup UpperAZ
IsLowerAlnum(c) == c \in LowerAZ \cup Digits
NotSpaceNorRParen(c) == ~IsSpace(c) /\ c # ")"

(***************************************************************************)
(* String helpers                                                          *)
(***************************************************************************)
\* name = value, then the statements F that read the name: the value is
\* computed once and F sees only the result
Bind(x, F(_)) == CHOOSE r \in {F(y) : y \in {x}} : TRUE
\* s[i..] (Python slice s[i-1:])
From(s, i) == SubSeq(s, i, Len(s))
\* the first index >= i whose character is not in class P (Len(s)+1 if none):
\* where a greedy P* started at i stops
RECURSIVE SkipWhile(_,_,_)
SkipWhile(P(_), s, i) ==
    IF i <= Len(s) /\ P(s[i]) THEN SkipWhile(P, s, i + 1) ELSE i
\* the last index <= i ... scanning backwards: the index of the last character
\* of s[1..i] that is not whitespace (0 if none)
RECURSIVE LastNonSpace(_,_)
LastNonSpace(s, i) ==
    IF i >= 1 /\ IsSpace(s[i]) THEN LastNonSpace(s, i - 1) ELSE i
\* str.lstrip()
LStrip(s) == From(s, SkipWhile(IsSpace, s, 1))
\* str.strip()
Strip(s) == SubSeq(s, SkipWhile(IsSpace, s, 1), LastNonSpace(s, Len(s)))
\* whether p occurs in s at index i
MatchAt(s, i, p) ==
    /\ i >= 1
    /\ i + Len(p) - 1 <= Len(s)
    /\ SubSeq(s, i, i + Len(p) - 1) = p
\* the same, ignoring case (re.IGNORECASE, or a comparison after lower())
MatchAtCI(s, i, p) ==
    /\ i >= 1
    /\ i + Len(p) - 1 <= Len(s)
    /\ Lower(SubSeq(s, i, i + Len(p) - 1)) = Lower(p)
\* str.startswith
StartsWith(s, p) == MatchAt(s, 1, p)
\* str.endswith
EndsWith(s, p) == Len(p) <= Len(s) /\ MatchAt(s, Len(s) - Len(p) + 1, p)
\* p in s
Contains(s, p) == \E i \in 1..Len(s) : MatchAt(s, i, p)
\* str.count of one character
CountChar(s, c) == Cardinality({i \in 1..Len(s) : s[i] = c})

(***************************************************************************)
(* re.sub: one left-to-right pass.  M(s, i) is the index of the last       *)
(* character of the match that starts at i (0 when there is none; every    *)
(* pattern used matches at least one character), R(s, i, e) the            *)
(* replacement of the match s[i..e].  Lookbehinds read s itself.           *)
(***************************************************************************)
RECURSIVE SubFrom(_,_,_,_)
SubFrom(M(_,_), R(_,_,_), s, i) ==
    IF i > Len(s) THEN <<>>
    ELSE LET e == M(s, i) IN
         IF e >= i THEN R(s, i, e) \o SubFrom(M, R, s, e + 1)
         ELSE <<s[i]>> \o SubFrom(M, R, s, i + 1)
ReSub(M(_,_), R(_,_,_), s) == SubFrom(M, R, s, 1)
\* re.search
ReSearch(M(_,_), s) == \E i \in 1..Len(s) : M(s, i) >= i

(***************************************************************************)
(* Line Classifier: patterns shared by several rules                       *)
(***************************************************************************)
\* ^\s*(?:-|\d+\.)\s+ : the index of the last character of the list-item
\* prefix of s, 0 when s is no list item
ListPrefixEnd(s) ==
    LET a == SkipWhile(IsSpace, s, 1)
        d == SkipWhile(IsDigit, s, a)
        m == IF a <= Len(s) /\ s[a] = "-" THEN a + 1
             ELSE IF d > a /\ d <= Len(s) /\ s[d] = "." THEN d + 1
             ELSE 0
        w == IF m = 0 THEN 0 ELSE SkipWhile(IsSpace, s, m)
    IN IF m # 0 /\ w > m THEN w - 1 ELSE 0
\* re.match(r'^\s*(-|\d+\.)\s+', line)
IsListItem(s) == ListPrefixEnd(s) > 0
\* ^\s*\d+\.\s+
NumberedPrefixEnd(s) ==
    LET a == SkipWhile(IsSpace, s, 1)
        d == SkipWhile(IsDigit, s, a)
        w == SkipWhile(IsSpace, s, d + 1)
    IN IF d > a /\ d <= Len(s) /\ s[d] = "." /\ w > d + 1 THEN w - 1 ELSE 0
IsNumberedItem(s) == NumberedPrefixEnd(s) > 0
\* \s*(.+)$ from index i: the index where group (.+) starts, 0 when the
\* pattern fails.  The greedy \s* gives back one character when nothing
\* else is left for (.+).
TailGroupStart(s, i) ==
    LET w == SkipWhile(IsSpace, s, i)
    IN IF w <= Len(s) THEN w
       ELSE IF w > i THEN Len(s)
       ELSE 0
\* line.strip().startswith('```')
IsFenceLine(s) == StartsWith(Strip(s), <<Tick, Tick, Tick>>)

\* **text** : \*\*([^*]+)\*\*
BoldEnd(s, i) ==
    LET j == SkipWhile(NotStar, s, i + 2)
    IN IF MatchAt(s, i, <<"*", "*">>) /\ j > i + 2 /\ MatchAt(s, j, <<"*", "*">>)
       THEN j + 1 ELSE 0
BoldInner(s, i, e) == SubSeq(s, i + 2, e - 2)
\* `text` : `([^`]+)`
CodeEnd(s, i) ==
    LET j == SkipWhile(NotTick, s, i + 1)
    IN IF s[i] = Tick /\ j > i + 1 /\ j <= Len(s) THEN j ELSE 0
CodeInner(s, i, e) == SubSeq(s, i + 1, e - 1)
CodeAsItalic(s, i, e) == <<"*">> \o SubSeq(s, i + 1, e - 1) \o <<"*">>
\* *text* : (?<!\*)\*(?!\*)([^*]+)\*(?!\*)
ItalicEnd(s, i) ==
    LET j == SkipWhile(NotStar, s, i + 1)
    IN IF /\ s[i] = "*"
          /\ (i = 1 \/ s[i - 1] # "*")
          /\ j > i + 1
          /\ j <= Len(s)
          /\ (j = Len(s) \/ s[j + 1] # "*")
       THEN j ELSE 0
ItalicInner(s, i, e) == SubSeq(s, i + 1, e - 1)

(***************************************************************************)
(* Transformation Pipeline: the per-line rules, in the order of            *)
(* simplify_markdown_file                                                  *)
(***************************************************************************)
ShowWord == <<"U+041F","U+043E","U+043A","U+0430","U+0437","U+0430","U+0442","U+044C">>
AnswerWords == { <<"U+043E","U+0442","U+0432","U+0435","U+0442">>,
                 <<"U+0440","U+0435","U+0448","U+0435","U+043D","U+0438","U+0435">>,
                 <<"U+0440","U+0435","U+0437","U+0443","U+043B","U+044C","U+0442","U+0430","U+0442">> }
IsEyeOrSpace(c) == c \in {Eye, VS16} \/ IsSpace(c)
RemoveBold(s) == ReSub(BoldEnd, BoldInner, s)
\* remove_show_answer_headers returns None: the line is dropped
remove_show_answer_headers_drops(line) ==
    LET stripped == Strip(line)
        clean == RemoveBold(stripped)
        a == SkipWhile(IsEyeOrSpace, clean, 1)
        b == a + Len(ShowWord)
        w == SkipWhile(IsSpace, clean, b)
    IN /\ stripped # <<>>
       /\ MatchAtCI(clean, a, ShowWord)
       /\ w > b
       /\ \E word \in AnswerWords : MatchAtCI(clean, w, word)

\* normalize_headers: ^(#{1,6})\s+(.+)$ -> "### " group 2
IsHash(c) == c = "#"
HeaderLevel == 3
HeaderGroupStart(line) ==
    LET h == SkipWhile(IsHash, line, 1)
        w == SkipWhile(IsSpace, line, h)
    IN IF h >= 2 /\ h <= 7 /\ w > h
       THEN (IF w <= Len(line) THEN w ELSE IF w - h >= 2 THEN Len(line) ELSE 0)
       ELSE 0
normalize_headers(line) ==
    LET g == HeaderGroupStart(line)
    IN IF g > 0
       THEN [k \in 1..HeaderLevel |-> "#"] \o <<" ">> \o From(line, g)
       ELSE line

\* remove_checklists: ^(\s*-)\s*\[([ xX])\]\s* -> group 1, one space
remove_checklists(line) ==
    LET a == SkipWhile(IsSpace, line, 1)
        b == SkipWhile(IsSpace, line, a + 1)
        e == SkipWhile(IsSpace, line, b + 3)
    IN IF /\ a <= Len(line) /\ line[a] = "-"
          /\ b + 2 <= Len(line)
          /\ line[b] = "[" /\ line[b + 1] \in {" ", "x", "X"} /\ line[b + 2] = "]"
       THEN SubSeq(line, 1, a) \o <<" ">> \o From(line, e)
       ELSE line

\* fix_bold_colon_in_lists
\* pattern1: ^(\s*(?:-|\d+\.)\s+)\*\*([^*]+):\*\*\s*(.+)$
\* pattern2: ^(\s*(?:-|\d+\.)\s+)\*\*([^*]+)\*\*:\s*(.+)$
fix_bold_colon_in_lists(line) ==
    Bind(ListPrefixEnd(line), LAMBDA p :
    Bind(SkipWhile(NotStar, line, p + 3), LAMBDA j :
    Bind(TailGroupStart(line, j + 2), LAMBDA g1 :
    Bind(TailGroupStart(line, j + 3), LAMBDA g2 :
       IF p = 0 \/ ~MatchAt(line, p + 1, <<"*", "*">>) THEN line
       ELSE IF j > p + 4 /\ line[j - 1] = ":" /\ MatchAt(line, j, <<"*", "*">>) /\ g1 > 0
       THEN SubSeq(line, 1, p) \o SubSeq(line, p + 3, j - 2) \o <<":", " ">> \o From(line, g1)
       ELSE IF j > p + 3 /\ MatchAt(line, j, <<"*", "*", ":">>) /\ g2 > 0
       THEN SubSeq(line, 1, p) \o SubSeq(line, p + 3, j - 1) \o <<":", " ">> \o From(line, g2)
       ELSE line))))

\* fix_code_with_dash_in_lists
\* ^(\s*(?:-|\d+\.)\s+)`([^`]+)`\s*SEP\s*(.+)$ for SEP an em dash, a colon,
\* a hyphen, tried in this order
fix_code_with_dash_in_lists(line) ==
    Bind(ListPrefixEnd(line), LAMBDA p :
    Bind(SkipWhile(NotTick, line, p + 2), LAMBDA j :
    Bind(SkipWhile(IsSpace, line, j + 1), LAMBDA sp :
    Bind(TailGroupStart(line, sp + 1), LAMBDA g :
       IF /\ p > 0 /\ p < Len(line) /\ line[p + 1] = Tick
          /\ j > p + 2 /\ j <= Len(line)
          /\ sp <= Len(line) /\ line[sp] \in {EmDash, ":", "-"}
          /\ g > 0
       THEN SubSeq(line, 1, p) \o SubSeq(line, p + 2, j - 1)
            \o (IF line[sp] = ":" THEN <<":", " ">> ELSE <<" ", line[sp], " ">>)
            \o From(line, g)
       ELSE line))))

\* remove_bold_in_lists
remove_bold_in_lists(line) ==
    IF IsListItem(line) THEN ReSub(BoldEnd, BoldInner, line) ELSE line

\* remove_code_in_lists
remove_code_in_lists(line) ==
    IF IsListItem(line) THEN ReSub(CodeEnd, CodeInner, line) ELSE line

\* fix_emoji_at_list_start: ^(prefix)([emoji][VS16]?)\s+(.+)$
fix_emoji_at_list_start(line) ==
    Bind(ListPrefixEnd(line), LAMBDA p :
    Bind(IF p + 2 <= Len(line) /\ line[p + 2] = VS16 THEN p + 2 ELSE p + 1, LAMBDA v :
    Bind(SkipWhile(IsSpace, line, v + 1), LAMBDA w :
    Bind(IF w <= Len(line) THEN w ELSE IF w - (v + 1) >= 2 THEN Len(line) ELSE 0, LAMBDA g :
       IF /\ p > 0 /\ p < Len(line) /\ line[p + 1] \in EmojiChars
          /\ w > v + 1 /\ g > 0
       THEN SubSeq(line, 1, v) \o <<":", " ">> \o From(line, g)
       ELSE line))))

\* remove_html_tags: <t>([^<]+)</t>, ignoring case, for a fixed tag name t
TagEnd(t, s, i) ==
    LET j == SkipWhile(NotLt, s, i + Len(t) + 2)
    IN IF /\ MatchAtCI(s, i, <<"<">> \o t \o <<">">>)
          /\ j > i + Len(t) + 2
          /\ MatchAtCI(s, j, <<"<", "/">> \o t \o <<">">>)
       THEN j + Len(t) + 2 ELSE 0
TagInner(t, s, i, e) == SubSeq(s, i + Len(t) + 2, e - Len(t) - 3)
BEnd(s, i) == TagEnd(<<"b">>, s, i)
BRepl(s, i, e) == <<"*", "*">> \o TagInner(<<"b">>, s, i, e) \o <<"*", "*">>
IEnd(s, i) == TagEnd(<<"i">>, s, i)
IRepl(s, i, e) == <<"*">> \o TagInner(<<"i">>, s, i, e) \o <<"*">>
StrongEnd(s, i) == TagEnd(<<"s","t","r","o","n","g">>, s, i)
StrongRepl(s, i, e) == <<"*", "*">> \o TagInner(<<"s","t","r","o","n","g">>, s, i, e) \o <<"*", "*">>
EmEnd(s, i) == TagEnd(<<"e","m">>, s, i)
EmRepl(s, i, e) == <<"*">> \o TagInner(<<"e","m">>, s, i, e) \o <<"*">>
\* <([a-z]+)>([^<]+)</\1>, ignoring case
AnyTagEnd(s, i) ==
    LET n == SkipWhile(IsLetterAZ, s, i + 1)
    IN IF s[i] = "<" /\ n > i + 1 /\ n <= Len(s) /\ s[n] = ">"
       THEN TagEnd(SubSeq(s, i + 1, n - 1), s, i)
       ELSE 0
AnyTagRepl(s, i, e) ==
    LET n == SkipWhile(IsLetterAZ, s, i + 1)
    IN TagInner(SubSeq(s, i + 1, n - 1), s, i, e)
\* the substitutions of remove_html_tags, in order
HtmlSub(n, s) ==
    CASE n = 1 -> ReSub(BEnd, BRepl, s)
      [] n = 2 -> ReSub(IEnd, IRepl, s)
      [] n = 3 -> ReSub(StrongEnd, StrongRepl, s)
      [] n = 4 -> ReSub(EmEnd, EmRepl, s)
      [] n = 5 -> ReSub(AnyTagEnd, AnyTagRepl, s)
RECURSIVE HtmlSubsFrom(_,_)
HtmlSubsFrom(n, s) ==
    IF n > 5 THEN s ELSE Bind(HtmlSub(n, s), LAMBDA r : HtmlSubsFrom(n + 1, r))
remove_html_tags(line) == HtmlSubsFrom(1, line)

\* ^(\s*>\s+)+ : the index of the last character of the blockquote prefix
\* that starts at i, i - 1 when no further repetition matches
RECURSIVE BlockquoteEnd(_,_)
BlockquoteEnd(s, i) ==
    LET a == SkipWhile(IsSpace, s, i)
        w == SkipWhile(IsSpace, s, a + 1)
    IN IF a <= Len(s) /\ s[a] = ">" /\ w > a + 1
       THEN BlockquoteEnd(s, w)
       ELSE i - 1
\* re.match(r'^\s*>\s+', line)
IsBlockquote(s) == BlockquoteEnd(s, 1) > 0
\* remove_blockquotes
remove_blockquotes(line) == From(line, BlockquoteEnd(line, 1) + 1)

\* https?:// : the index of the first character after the protocol that
\* starts at i, 0 when there is none
ProtocolEnd(s, i) ==
    LET k == IF i + 4 <= Len(s) /\ s[i + 4] = "s" THEN i + 5 ELSE i + 4
    IN IF MatchAt(s, i, <<"h","t","t","p">>) /\ MatchAt(s, k, <<":","/","/">>)
       THEN k + 3 ELSE 0
\* remove_bare_urls: https?://([^\s)]+) -> group 1
UrlEnd(s, i) ==
    LET g == ProtocolEnd(s, i)
        e == SkipWhile(NotSpaceNorRParen, s, g)
    IN IF g > 0 /\ e > g THEN e - 1 ELSE 0
UrlRepl(s, i, e) == SubSeq(s, ProtocolEnd(s, i), e)
remove_bare_urls(line) == ReSub(UrlEnd, UrlRepl, line)

image_extensions == { <<".","p","n","g">>,
                      <<".","j","p","g">>,
                      <<".","j","p","e","g">>,
                      <<".","g","i","f">>,
                      <<".","s","v","g">>,
                      <<".","w","e","b","p">>,
                      <<".","b","m","p">> }
\* the test without lower(): only the extensions as listed
HasImageExtensionAsListed(url) == \E ext \in image_extensions : EndsWith(url, ext)
\* any(url.lower().endswith(ext) for ext in image_extensions)
HasImageExtension(url) == \E ext \in image_extensions : EndsWith(Lower(url), ext)
\* (!?)\[([^\]]+)\]\(([^)]+)\) : where the text starts, where it ends
LinkTextStart(s, i) == IF s[i] = "!" THEN i + 2 ELSE i + 1
LinkTextEnd(s, i) == SkipWhile(NotRBracket, s, LinkTextStart(s, i)) - 1
LinkEnd(s, i) ==
    LET b == LinkTextStart(s, i) - 1
        j == LinkTextEnd(s, i) + 1
        k == SkipWhile(NotRParen, s, j + 2)
    IN IF /\ b <= Len(s) /\ s[b] = "["
          /\ j > b + 1
          /\ MatchAt(s, j, <<"]", "(">>)
          /\ k > j + 2 /\ k <= Len(s)
       THEN k ELSE 0
\* re.sub(r'^https?://', '', url)
StripProtocol(url) ==
    IF ProtocolEnd(url, 1) > 0 THEN From(url, ProtocolEnd(url, 1)) ELSE url
\* convert_markdown_links.replace_link
replace_link(s, i, e) ==
    LET text == SubSeq(s, LinkTextStart(s, i), LinkTextEnd(s, i))
        url == SubSeq(s, LinkTextEnd(s, i) + 3, e - 1)
        is_image == s[i] = "!"
    IN IF is_image \/ HasImageExtension(url)
       THEN SubSeq(s, i, e)
       ELSE <<"*">> \o text \o <<" ", "(">> \o StripProtocol(url) \o <<")", "*">>
\* convert_markdown_links
convert_markdown_links(line) == ReSub(LinkEnd, replace_link, line)

\* quote_operators_in_lists: the operators, in the order of the list
operators == << <<"-", ">">>, <<"-", ">", ">">>, <<"@", ">">>, <<"?">>,
                <<"<", "=">>, <<">", "=">>, <<"!", "=">> >>
\* (\s|^)(op)(\s*EMDASH\s*|\s+) at i: the index where op starts, 0 if none
OpStart(op, s, i) ==
    IF IsSpace(s[i]) /\ MatchAt(s, i + 1, op) THEN i + 1
    ELSE IF i = 1 /\ MatchAt(s, 1, op) THEN 1
    ELSE 0
\* the index of the last character of that match, 0 if none
OpMatchEnd(op, s, i) ==
    LET o == OpStart(op, s, i)
        q == o + Len(op)
        w == SkipWhile(IsSpace, s, q)
    IN IF o = 0 THEN 0
       ELSE IF w <= Len(s) /\ s[w] = EmDash THEN SkipWhile(IsSpace, s, w + 1) - 1
       ELSE IF w > q THEN w - 1
       ELSE 0
RECURSIVE QuoteOpFrom(_,_,_)
QuoteOpFrom(op, s, i) ==
    IF i > Len(s) THEN <<>>
    ELSE LET e == OpMatchEnd(op, s, i)
             o == OpStart(op, s, i)
         IN IF e >= i
            THEN SubSeq(s, i, o - 1) \o <<Quote>> \o op \o <<Quote>>
                 \o SubSeq(s, o + Len(op), e) \o QuoteOpFrom(op, s, e + 1)
            ELSE <<s[i]>> \o QuoteOpFrom(op, s, i + 1)
RECURSIVE QuoteOps(_,_)
QuoteOps(s, n) ==
    IF n > Len(operators) THEN s
    ELSE QuoteOps(QuoteOpFrom(operators[n], s, 1), n + 1)
quote_operators_in_lists(line) ==
    IF IsFenceLine(line) THEN line
    ELSE IF IsBlockquote(line) THEN line
    ELSE QuoteOps(line, 1)

\* remove_inline_code_everywhere
remove_inline_code_everywhere(line) ==
    IF IsFenceLine(line) THEN line ELSE ReSub(CodeEnd, CodeAsItalic, line)

common_words == {
    <<"i","s">>, <<"a","r","e">>, <<"w","a","s">>, <<"w","e","r","e">>,
    <<"b","e">>, <<"b","e","e","n">>, <<"b","e","i","n","g">>, <<"a","n","d">>,
    <<"o","r">>, <<"n","o","t">>, <<"b","u","t">>, <<"i","f">>,
    <<"t","h","e">>, <<"a">>, <<"a","n">>, <<"i","n">>,
    <<"o","n">>, <<"a","t">>, <<"t","o">>, <<"f","o","r">>,
    <<"o","f">>, <<"w","i","t","h">>, <<"b","y">>, <<"a","s">>,
    <<"i","t">>, <<"t","h","i","s">>, <<"t","h","a","t">>, <<"f","r","o","m">>,
    <<"a","l","l">>, <<"c","a","n">>, <<"w","i","l","l">>, <<"w","o","u","l","d">>,
    <<"s","h","o","u","l","d">>, <<"c","o","u","l","d">>, <<"m","a","y">>, <<"m","i","g","h","t">>,
    <<"d","o">>, <<"d","o","e","s">>, <<"d","i","d">>, <<"h","a","v","e">>,
    <<"h","a","s">>, <<"h","a","d">>, <<"g","e","t">>, <<"s","e","t">>,
    <<"u","s","e">>, <<"m","a","k","e">>, <<"t","a","k","e">>, <<"g","o">>,
    <<"s","e","e">>, <<"n","e","w">>, <<"o","l","d">>, <<"f","i","r","s","t">>,
    <<"l","a","s","t">>, <<"n","e","x","t">>, <<"o","n","e">>, <<"t","w","o">>,
    <<"w","h","e","n">>, <<"w","h","e","r","e">>, <<"w","h","y">>, <<"h","o","w">>,
    <<"w","h","a","t">>, <<"w","h","i","c","h">>, <<"s","o","m","e">>, <<"a","n","y">>,
    <<"m","a","n","y">>, <<"m","u","c","h">>, <<"f","e","w">>, <<"m","o","r","e">>,
    <<"m","o","s","t">>, <<"o","n","l","y">>, <<"j","u","s","t">>, <<"a","l","s","o">>,
    <<"e","v","e","n">>, <<"w","e","l","l">>, <<"w","a","y">>, <<"b","a","c","k">>,
    <<"t","i","m","e">>, <<"y","e","a","r">>, <<"w","o","r","k">>, <<"p","a","r","t">>,
    <<"c","a","s","e">>, <<"o","v","e","r">>, <<"t","h","a","n">>, <<"a","b","l","e">>,
    <<"d","a","t","a">>, <<"i","n","t","o">>, <<"t","h","e","n">>, <<"t","h","e","m">>,
    <<"e","a","c","h">>, <<"s","u","c","h">> }
\* (?<![*])\b([a-z][a-z0-9]*(?:_[a-z0-9]+)+)\b(?![*])
\* the first index after the segments [a-z0-9]* (_[a-z0-9]+)* that start at a
RECURSIVE SnakeRun(_,_)
SnakeRun(s, a) ==
    IF a + 1 <= Len(s) /\ s[a] = "_" /\ IsLowerAlnum(s[a + 1])
    THEN SnakeRun(s, SkipWhile(IsLowerAlnum, s, a + 1))
    ELSE a
SnakeEnd(s, i) ==
    LET a == SkipWhile(IsLowerAlnum, s, i + 1)
        z == SnakeRun(s, a)
    IN IF /\ IsLowerAZ(s[i])
          /\ (i = 1 \/ (s[i - 1] # "*" /\ ~IsWord(s[i - 1])))
          /\ z > a
          /\ (z > Len(s) \/ (s[z] # "*" /\ ~IsWord(s[z])))
       THEN z - 1 ELSE 0
WrapItalic(s, i, e) == <<"*">> \o SubSeq(s, i, e) \o <<"*">>
\* (?<![-*])\b([a-z]{4,})\b(?![*])
TechEnd(s, i) ==
    LET z == SkipWhile(IsLowerAZ, s, i)
    IN IF /\ z - i >= 4
          /\ (i = 1 \/ (s[i - 1] \notin {"*", "-"} /\ ~IsWord(s[i - 1])))
          /\ (z > Len(s) \/ (s[z] # "*" /\ ~IsWord(s[z])))
       THEN z - 1 ELSE 0
replace_tech_term(s, i, e) ==
    IF Lower(SubSeq(s, i, e)) \in common_words THEN SubSeq(s, i, e)
    ELSE WrapItalic(s, i, e)
\* wrap_technical_terms_in_italic
wrap_technical_terms_in_italic(line) ==
    LET st == Strip(line)
    IN IF IsFenceLine(line) THEN line
       ELSE IF StartsWith(st, <<"|">>) \/ CountChar(line, "|") > 2 THEN line
       ELSE IF StartsWith(st, <<"#">>) \/ st = <<"-", "-", "-">> THEN line
       ELSE IF IsListItem(line) THEN line
       ELSE ReSub(TechEnd, replace_tech_term, ReSub(SnakeEnd, WrapItalic, line))
\* (!\[[^\]]+\]\()([^\)]+)(\))
ImageEnd(s, i) == IF s[i] = "!" THEN LinkEnd(s, i) ELSE 0
process_without_image_path(s, i, e) ==
    wrap_technical_terms_in_italic(SubSeq(s, i, LinkTextEnd(s, i) + 2))
    \o SubSeq(s, LinkTextEnd(s, i) + 3, e - 1)
    \o wrap_technical_terms_in_italic(<<")">>)
\* wrap_technical_terms_in_italic_except_images
wrap_technical_terms_in_italic_except_images(line) ==
    IF ReSearch(ImageEnd, line)
    THEN ReSub(ImageEnd, process_without_image_path, line)
    ELSE wrap_technical_terms_in_italic(line)

\* remove_italic_in_lists
remove_italic_in_lists(line) ==
    IF IsNumberedItem(line) THEN ReSub(ItalicEnd, ItalicInner, line) ELSE line


\* the rules of the per-line pass after reveal-label removal, in the order
\* simplify_markdown_file applies them: rule n of the pass
RuleCount == 15
\* the rules with the HTML tag unwrap in the place of the bold strip and
\* the bold strip in the place of the HTML tag unwrap
ApplyRuleHtmlFirst(n, line) ==
    CASE n = 1 -> normalize_headers(line)
      [] n = 2 -> remove_checklists(line)
      [] n = 3 -> fix_bold_colon_in_lists(line)
      [] n = 4 -> fix_code_with_dash_in_lists(line)
      [] n = 5 -> remove_html_tags(line)
      [] n = 6 -> remove_code_in_lists(line)
      [] n = 7 -> fix_emoji_at_list_start(line)
      [] n = 8 -> remove_bold_in_lists(line)
      [] n = 9 -> remove_blockquotes(line)
      [] n = 10 -> remove_bare_urls(line)
      [] n = 11 -> convert_markdown_links(line)
      [] n = 12 -> quote_operators_in_lists(line)
      [] n = 13 -> remove_inline_code_everywhere(line)
      [] n = 14 -> wrap_technical_terms_in_italic_except_images(line)
      [] n = 15 -> remove_italic_in_lists(line)
ApplyRule(n, line) ==
    CASE n = 1 -> normalize_headers(line)
      [] n = 2 -> remove_checklists(line)
      [] n = 3 -> fix_bold_colon_in_lists(line)
      [] n = 4 -> fix_code_with_dash_in_lists(line)
      [] n = 5 -> remove_bold_in_lists(line)
      [] n = 6 -> remove_code_in_lists(line)
      [] n = 7 -> fix_emoji_at_list_start(line)
      [] n = 8 -> remove_html_tags(line)
      [] n = 9 -> remove_blockquotes(line)
      [] n = 10 -> remove_bare_urls(line)
      [] n = 11 -> convert_markdown_links(line)
      [] n = 12 -> quote_operators_in_lists(line)
      [] n = 13 -> remove_inline_code_everywhere(line)
      [] n = 14 -> wrap_technical_terms_in_italic_except_images(line)
      [] n = 15 -> remove_italic_in_lists(line)
\* the line after rules n, n + 1, ..., RuleCount
RECURSIVE ApplyRulesFrom(_,_)
ApplyRulesFrom(n, line) ==
    IF n > RuleCount THEN line
    ELSE Bind(ApplyRule(n, line), LAMBDA r : ApplyRulesFrom(n + 1, r))
ApplyRules(line) == ApplyRulesFrom(1, line)

(***************************************************************************)
(* Collapsible-Block Expander: one iteration of process_details_blocks     *)
(***************************************************************************)
DetailsOpen == <<"<","d","e","t","a","i","l","s",">">>
DetailsClose == <<"<","/","d","e","t","a","i","l","s",">">>
SummaryOpen == <<"<","s","u","m","m","a","r","y",">">>
SummaryClose == <<"<","/","s","u","m","m","a","r","y",">">>
DetailsOpenEnd(s, i) == IF MatchAtCI(s, i, DetailsOpen) THEN i + Len(DetailsOpen) - 1 ELSE 0
SummaryOpenEnd(s, i) == IF MatchAtCI(s, i, SummaryOpen) THEN i + Len(SummaryOpen) - 1 ELSE 0
SummaryCloseEnd(s, i) == IF MatchAtCI(s, i, SummaryClose) THEN i + Len(SummaryClose) - 1 ELSE 0
Deleted(s, i, e) == <<>>
DetailsInit ==
    [result |-> <<>>, in_details |-> FALSE, in_summary |-> FALSE, summary_content |-> <<>>]
DetailsStep(st, line) ==
    LET low == Lower(line) IN
    IF Contains(low, DetailsOpen)
    THEN LET clean_line == ReSub(DetailsOpenEnd, Deleted, line)
         IN [st EXCEPT !.in_details = TRUE,
                       !.result = IF Strip(clean_line) # <<>> THEN Append(@, clean_line) ELSE @]
    ELSE IF Contains(low, SummaryOpen)
    THEN [st EXCEPT !.in_summary = TRUE,
                    !.summary_content =
                        Strip(ReSub(SummaryCloseEnd, Deleted, ReSub(SummaryOpenEnd, Deleted, line)))]
    ELSE IF Contains(low, SummaryClose)
    THEN [st EXCEPT !.in_summary = FALSE, !.summary_content = <<>>]
    ELSE IF Contains(low, DetailsClose)
    THEN [st EXCEPT !.in_details = FALSE]
    ELSE [st EXCEPT !.result = Append(@, line)]
RECURSIVE DetailsFold(_,_,_)
DetailsFold(st, ls, k) ==
    IF k > Len(ls) THEN st ELSE DetailsFold(DetailsStep(st, ls[k]), ls, k + 1)
process_details_blocks(ls) == DetailsFold(DetailsInit, ls, 1).result

(***************************************************************************)
(* Nested-List Unifier: one iteration of unify_nested_list_types           *)
(***************************************************************************)
\* str(n) for n >= 0
RECURSIVE IntToStr(_)
IntToStr(n) ==
    LET d == <<"0","1","2","3","4","5","6","7","8","9">>[(n % 10) + 1]
    IN IF n < 10 THEN <<d>> ELSE IntToStr(n \div 10) \o <<d>>
\* ^-\s+ on the stripped line: the index of the last character, 0 if none
BulletMarkerEnd(stripped) ==
    LET w == SkipWhile(IsSpace, stripped, 2)
    IN IF Len(stripped) >= 1 /\ stripped[1] = "-" /\ w > 2 THEN w - 1 ELSE 0
\* an indentation that is lost
SpacesNone(n) == <<>>
\* ' ' * current_indent
Spaces(n) == [k \in 1..n |-> " "]
\* a pass that starts below a bulleted parent
UnifyInitUnderBullet ==
    [result |-> <<>>, parent_type |-> "bullet", parent_indent |-> 0, nested_counter |-> 1]
UnifyInit ==
    [result |-> <<>>, parent_type |-> "None", parent_indent |-> 0, nested_counter |-> 1]
\* a unifier that takes a nested list item for the parent of what follows
UnifyStepDeepParent(st, line) ==
    LET stripped == LStrip(line)
        current_indent == Len(line) - Len(stripped)
        num_end == NumberedPrefixEnd(stripped)
        bul_end == BulletMarkerEnd(stripped)
        is_numbered == num_end > 0
        is_bullet == bul_end > 0
        text == IF is_numbered THEN From(stripped, num_end + 1)
                ELSE From(stripped, bul_end + 1)
    IN IF ~is_numbered /\ ~is_bullet
       THEN IF current_indent <= st.parent_indent
            THEN [result |-> Append(st.result, line), parent_type |-> "None",
                  parent_indent |-> 0, nested_counter |-> 1]
            ELSE [st EXCEPT !.result = Append(@, line)]
       ELSE IF current_indent = 0 \/ current_indent <= st.parent_indent
       THEN [result |-> Append(st.result, line),
             parent_type |-> IF is_numbered THEN "numbered" ELSE "bullet",
             parent_indent |-> current_indent, nested_counter |-> 1]
       ELSE IF st.parent_type = "None"
       THEN [st EXCEPT !.result = Append(@, line)]
       ELSE IF st.parent_type = "numbered"
       THEN [st EXCEPT !.result = Append(@, Spaces(current_indent)
                                    \o IntToStr(st.nested_counter) \o <<".", " ">> \o text),
                       !.nested_counter = @ + 1,
                       !.parent_indent = current_indent]
       ELSE [st EXCEPT !.result = Append(@, Spaces(current_indent) \o <<"-", " ">> \o text),
                       !.parent_indent = current_indent]
\* a loop body where every line that is no list item clears the context
UnifyStepTextClears(st, line) ==
    LET stripped == LStrip(line)
        current_indent == Len(line) - Len(stripped)
        num_end == NumberedPrefixEnd(stripped)
        bul_end == BulletMarkerEnd(stripped)
        is_numbered == num_end > 0
        is_bullet == bul_end > 0
        text == IF is_numbered THEN From(stripped, num_end + 1)
                ELSE From(stripped, bul_end + 1)
    IN IF ~is_numbered /\ ~is_bullet
       THEN IF TRUE
            THEN [result |-> Append(st.result, line), parent_type |-> "None",
                  parent_indent |-> 0, nested_counter |-> 1]
            ELSE [st EXCEPT !.result = Append(@, line)]
       ELSE IF current_indent = 0 \/ current_indent <= st.parent_indent
       THEN [result |-> Append(st.result, line),
             parent_type |-> IF is_numbered THEN "numbered" ELSE "bullet",
             parent_indent |-> current_indent, nested_counter |-> 1]
       ELSE IF st.parent_type = "None"
       THEN [st EXCEPT !.result = Append(@, line)]
       ELSE IF st.parent_type = "numbered"
       THEN [st EXCEPT !.result = Append(@, Spaces(current_indent)
                                    \o IntToStr(st.nested_counter) \o <<".", " ">> \o text),
                       !.nested_counter = @ + 1]
       ELSE [st EXCEPT !.result = Append(@, Spaces(current_indent) \o <<"-", " ">> \o text)]
\* one iteration of the loop of unify_nested_list_types
UnifyStep(st, line) ==
    LET stripped == LStrip(line)
        current_indent == Len(line) - Len(stripped)
        num_end == NumberedPrefixEnd(stripped)
        bul_end == BulletMarkerEnd(stripped)
        is_numbered == num_end > 0
        is_bullet == bul_end > 0
        text == IF is_numbered THEN From(stripped, num_end + 1)
                ELSE From(stripped, bul_end + 1)
    IN IF ~is_numbered /\ ~is_bullet
       THEN IF current_indent <= st.parent_indent
            THEN [result |-> Append(st.result, line), parent_type |-> "None",
                  parent_indent |-> 0, nested_counter |-> 1]
            ELSE [st EXCEPT !.result = Append(@, line)]
       ELSE IF current_indent = 0 \/ current_indent <= st.parent_indent
       THEN [result |-> Append(st.result, line),
             parent_type |-> IF is_numbered THEN "numbered" ELSE "bullet",
             parent_indent |-> current_indent, nested_counter |-> 1]
       ELSE IF st.parent_type = "None"
       THEN [st EXCEPT !.result = Append(@, line)]
       ELSE IF st.parent_type = "numbered"
       THEN [st EXCEPT !.result = Append(@, Spaces(current_indent)
                                    \o IntToStr(st.nested_counter) \o <<".", " ">> \o text),
                       !.nested_counter = @ + 1]
       ELSE [st EXCEPT !.result = Append(@, Spaces(current_indent) \o <<"-", " ">> \o text)]
RECURSIVE UnifyFold(_,_,_)
UnifyFold(st, ls, k) ==
    IF k > Len(ls) THEN st ELSE UnifyFold(UnifyStep(st, ls[k]), ls, k + 1)
unify_nested_list_types(ls) == UnifyFold(UnifyInit, ls, 1).result

(***************************************************************************)
(* Code-Fence Tracker and the per-line pass of simplify_markdown_file      *)
(***************************************************************************)
\* a tracker that opens at a delimiter and never closes
ToggleFenceOpenOnly(flag) == TRUE
\* in_code_block = not in_code_block
ToggleFence(flag) == ~flag
LinesInit == [processed_lines |-> <<>>, in_code_block |-> FALSE]
\* a pass that tests for a reveal label before it looks at the fence flag
LineStepLabelFirst(st, line) ==
    IF IsFenceLine(line)
    THEN [processed_lines |-> Append(st.processed_lines, line),
          in_code_block |-> ToggleFence(st.in_code_block)]
    ELSE IF remove_show_answer_headers_drops(line)
    THEN st
    ELSE IF st.in_code_block
    THEN [st EXCEPT !.processed_lines = Append(@, line)]
    ELSE [st EXCEPT !.processed_lines = Append(@, ApplyRules(line))]
LineStep(st, line) ==
    IF IsFenceLine(line)
    THEN [processed_lines |-> Append(st.processed_lines, line),
          in_code_block |-> ToggleFence(st.in_code_block)]
    ELSE IF st.in_code_block
    THEN [st EXCEPT !.processed_lines = Append(@, line)]
    ELSE IF remove_show_answer_headers_drops(line)
    THEN st
    ELSE [st EXCEPT !.processed_lines = Append(@, ApplyRules(line))]
RECURSIVE LinesFold(_,_,_)
LinesFold(st, ls, k) ==
    IF k > Len(ls) THEN st ELSE LinesFold(LineStep(st, ls[k]), ls, k + 1)
\* the lines simplify_markdown_file writes for the lines it read
Rewrite(ls) ==
    LinesFold(LinesInit, unify_nested_list_types(process_details_blocks(ls)), 1).processed_lines
\* '\n'.join(ls)
RECURSIVE JoinLines(_)
JoinLines(ls) ==
    IF ls = <<>> THEN <<>>
    ELSE IF Len(ls) = 1 THEN ls[1]
    ELSE ls[1] \o <<"\n">> \o JoinLines(Tail(ls))



(***************************************************************************)
(* The section splitter: MarkdownSplitter of split_markdown.py on one      *)
(* source file.  A line keeps its line terminator, as readlines() returns  *)
(* it.                                                                     *)
(***************************************************************************)
Tilde == "~"
\* line.strip().startswith('```') or line.strip().startswith('~~~')
IsSplitFence(line) ==
    \/ StartsWith(Strip(line), <<Tick, Tick, Tick>>)
    \/ StartsWith(Strip(line), <<Tilde, Tilde, Tilde>>)
\* a test that takes a heading of any level from the second on
IsSectionHeadingAnyDepth(line) == StartsWith(Strip(line), <<"#", "#">>)
\* line.strip().startswith('## ') and not line.strip().startswith('### ')
IsSectionHeading(line) ==
    /\ StartsWith(Strip(line), <<"#", "#", " ">>)
    /\ ~StartsWith(Strip(line), <<"#", "#", "#", " ">>)
\* a test that takes any section that has a line
AnyLine(section) == section # <<>>
\* current_section and any(l.strip() for l in current_section)
AnyNonBlank(section) ==
    section # <<>> /\ \E k \in 1..Len(section) : Strip(section[k]) # <<>>
\* a loop that starts a section at a heading and leaves the heading out
ParseStepHeadingLost(st, line) ==
    IF IsSplitFence(line)
    THEN [st EXCEPT !.in_code_block = ~@,
                    !.current_section = Append(@, line)]
    ELSE IF st.in_code_block
    THEN [st EXCEPT !.current_section = Append(@, line)]
    ELSE IF IsSectionHeading(line)
    THEN [st EXCEPT !.sections = IF AnyNonBlank(st.current_section)
                                 THEN Append(@, st.current_section) ELSE @,
                    !.current_section = <<>>]
    ELSE [st EXCEPT !.current_section = Append(@, line)]
\* one iteration of the loop of parse_markdown_file
ParseStep(st, line) ==
    IF IsSplitFence(line)
    THEN [st EXCEPT !.in_code_block = ~@,
                    !.current_section = Append(@, line)]
    ELSE IF st.in_code_block
    THEN [st EXCEPT !.current_section = Append(@, line)]
    ELSE IF IsSectionHeading(line)
    THEN [st EXCEPT !.sections = IF AnyNonBlank(st.current_section)
                                 THEN Append(@, st.current_section) ELSE @,
                    !.current_section = <<line>>]
    ELSE [st EXCEPT !.current_section = Append(@, line)]
\* the end of parse_markdown_file: the last section
ParseEnd(st) ==
    IF AnyNonBlank(st.current_section)
    THEN Append(st.sections, st.current_section) ELSE st.sections
\* the locals of parse_markdown_file before its loop
ParseInit == [sections |-> <<>>, current_section |-> <<>>, in_code_block |-> FALSE]
RECURSIVE ParseFold(_,_,_)
ParseFold(st, ls, k) ==
    IF k > Len(ls) THEN st ELSE ParseFold(ParseStep(st, ls[k]), ls, k + 1)
\* the sections parse_markdown_file returns for the lines it read
parse_markdown_file(ls) == ParseEnd(ParseFold(ParseInit, ls, 1))

\* Path(filename).stem, for the name of a file
Stem(name) ==
    LET dots == {k \in 1..Len(name) : name[k] = "."}
        d == IF dots = {} THEN 0 ELSE CHOOSE k \in dots : \A m \in dots : m <= k
    IN IF d > 1 /\ d < Len(name) THEN SubSeq(name, 1, d - 1) ELSE name
\* a prefix that is always the first two characters of the stem
extract_file_prefix_two_chars(name) ==
    SubSeq(Stem(name), 1, IF Len(Stem(name)) < 2 THEN Len(Stem(name)) ELSE 2)
\* extract_file_prefix
extract_file_prefix(name) ==
    LET d == SkipWhile(IsDigit, Stem(name), 1)
    IN IF d > 1 THEN SubSeq(Stem(name), 1, d - 1)
       ELSE SubSeq(Stem(name), 1, IF Len(Stem(name)) < 2 THEN Len(Stem(name)) ELSE 2)
\* calculate_path_adjustment on the parts of the two resolved directories
calculate_path_adjustment(source_parts, target_parts) ==
    IF /\ Len(target_parts) > Len(source_parts)
       /\ SubSeq(target_parts, 1, Len(source_parts)) = source_parts
    THEN Len(target_parts) - Len(source_parts)
    ELSE 0
\* is_image_path
is_image_path(path) == \E ext \in image_extensions : EndsWith(Lower(path), ext)
\* one '../' whatever the number of levels
UpDirsOnce(n) == <<".", ".", "/">>
\* '../' * levels_up
RECURSIVE UpDirs(_)
UpDirs(n) == IF n <= 0 THEN <<>> ELSE <<".", ".", "/">> \o UpDirs(n - 1)
\* (!?)\[([^\]]*)\]\(([^\)]+)\) : the index of the last character of the
\* match that starts at i, 0 when there is none
SplitLinkEnd(s, i) ==
    LET b == IF s[i] = "!" THEN i + 1 ELSE i
        j == SkipWhile(NotRBracket, s, b + 1)
        k == SkipWhile(NotRParen, s, j + 2)
    IN IF /\ b <= Len(s) /\ s[b] = "["
          /\ MatchAt(s, j, <<"]", "(">>)
          /\ k > j + 2 /\ k <= Len(s)
       THEN k ELSE 0
\* adjust_relative_path.replace_link
adjust_replace_link(levels_up, s, i, e) ==
    LET b == IF s[i] = "!" THEN i + 1 ELSE i
        j == SkipWhile(NotRBracket, s, b + 1)
        is_image == s[i] = "!"
        old_path == Strip(SubSeq(s, j + 2, e - 1))
        head == SubSeq(s, i, j + 1)
    IN IF \/ StartsWith(old_path, <<"h","t","t","p",":","/","/">>)
          \/ StartsWith(old_path, <<"h","t","t","p","s",":","/","/">>)
          \/ StartsWith(old_path, <<"/">>)
       THEN SubSeq(s, i, e)
       ELSE IF is_image \/ is_image_path(old_path)
       THEN IF StartsWith(old_path, <<".", "/">>)
            THEN head \o UpDirs(levels_up) \o From(old_path, 3) \o <<")">>
            ELSE IF StartsWith(old_path, <<".", ".", "/">>)
            THEN SubSeq(s, i, e)
            ELSE head \o UpDirs(levels_up) \o old_path \o <<")">>
       ELSE SubSeq(s, i, e)
\* adjust_relative_path
adjust_relative_path(line, levels_up) ==
    IF levels_up = 0 THEN line
    ELSE ReSub(SplitLinkEnd,
               LAMBDA s, i, e : adjust_replace_link(levels_up, s, i, e), line)
\* f"{idx:02d}"
TwoDigits(idx) == IF idx < 10 THEN <<"0">> \o IntToStr(idx) ELSE IntToStr(idx)
\* a file name with the section number as it is
SectionFileNameUnpadded(file_prefix, idx) ==
    file_prefix \o <<"_">> \o IntToStr(idx) \o <<".", "m", "d">>
\* f"{file_prefix}_{idx:02d}.md"
SectionFileName(file_prefix, idx) ==
    file_prefix \o <<"_">> \o TwoDigits(idx) \o <<".", "m", "d">>
\* ''.join(adjusted_section) of one section
RECURSIVE SectionContent(_,_,_)
SectionContent(section, levels_up, k) ==
    IF k > Len(section) THEN <<>>
    ELSE adjust_relative_path(section[k], levels_up)
         \o SectionContent(section, levels_up, k + 1)
\* the files save_sections writes for sections k, k + 1, ...
RECURSIVE save_sections(_,_,_,_)
save_sections(secs, file_prefix, n, k) ==
    IF k > Len(secs) THEN <<>>
    ELSE <<[name |-> SectionFileName(file_prefix, k),
            content |-> SectionContent(secs[k], n, 1)]>>
         \o save_sections(secs, file_prefix, n, k + 1)

(***************************************************************************)
(* The rewrite tool as a state machine: simplify_markdown_file on one      *)
(* document.  pc is the position in the function: the two pre-passes, the  *)
(* per-line pass, the write.                                               *)
(***************************************************************************)
VARIABLES pc, doc, lines, i, result,
          in_details, in_summary, summary_content,
          parent_type, parent_indent, nested_counter,
          in_code_block, processed_lines, written,
          \* one rule applied to one line
          link_parts, rule_in, rule_out, levels_up,
          \* the section splitter (split_markdown.py)
          filename, source_dir, target_dir, sections, current_section,
          created_files,
          \* a batch: main and process_directory
          directories, dir_idx, file_idx, total_processed, handled, md_files,
          \* the file handles the running call holds
          open_handles,
          \* the names of the files written into the target directory during
          \* the run, in the order of the writes
          target_files
ruleVars == <<link_parts, rule_in, rule_out, levels_up>>
splitVars == <<filename, source_dir, target_dir, sections, current_section,
               created_files>>
batchVars == <<directories, dir_idx, file_idx, total_processed, handled, md_files>>
fileVars == <<open_handles, target_files>>
vars == <<pc, doc, lines, i, result, in_details, in_summary, summary_content,
          parent_type, parent_indent, nested_counter,
          in_code_block, processed_lines, written, ruleVars, splitVars,
          batchVars, fileVars>>

\* the longest document read
MaxDocLen == 3
\* the lines documents are made of:
\*   '```'          a bare fence delimiter
\*   '  ```py'      an indented fence delimiter with an info string
\*   '# T'          a first-level heading
\*   '> # T'        a heading inside a blockquote
\*   '- <b>x</b>'   a bulleted item with an HTML bold tag
\*   '1. * * *'     a numbered item holding the * * * token
\*   '<details>x'   a block-open marker with trailing content
\*   '- a'          a bulleted item
\*   '  1. b'       an indented numbered item
\*   ''             a blank line
Corpus == {
    <<Tick, Tick, Tick>>,
    <<" ", " ", Tick, Tick, Tick, "p", "y">>,
    <<"#", " ", "T">>,
    <<">", " ", "#", " ", "T">>,
    <<"-", " ", "<", "b", ">", "x", "<", "/", "b", ">">>,
    <<"1", ".", " ", "*", " ", "*", " ", "*">>,
    <<"<", "d", "e", "t", "a", "i", "l", "s", ">", "x">>,
    <<"-", " ", "a">>,
    <<" ", " ", "1", ".", " ", "b">>,
    <<>> }
Docs == UNION {[1..n -> Corpus] : n \in 0..MaxDocLen}
\* the variables of the tools that do not run
RuleIdle ==
    link_parts = <<>> /\ rule_in = <<>> /\ rule_out = <<>> /\ levels_up = 0
SplitIdle ==
    /\ filename = <<>> /\ source_dir = <<>> /\ target_dir = <<>>
    /\ sections = <<>> /\ current_section = <<>> /\ created_files = <<>>
BatchIdle ==
    /\ directories = <<>> /\ dir_idx = 1 /\ file_idx = 1
    /\ total_processed = 0 /\ handled = {} /\ md_files = <<>>
RewriteIdle ==
    /\ doc = <<>> /\ result = <<>> /\ in_details = FALSE /\ in_summary = FALSE
    /\ summary_content = <<>> /\ parent_type = "None" /\ parent_indent = 0
    /\ nested_counter = 1 /\ processed_lines = <<>> /\ written = "None"
rewriteVars == <<doc, result, in_details, in_summary, summary_content,
                 parent_type, parent_indent, nested_counter, processed_lines,
                 written>>

Init ==
    /\ doc \in Docs
    /\ lines = doc
    /\ pc = "details"
    /\ i = 1
    /\ result = DetailsInit.result
    /\ in_details = DetailsInit.in_details
    /\ in_summary = DetailsInit.in_summary
    /\ summary_content = DetailsInit.summary_content
    /\ parent_type = UnifyInit.parent_type
    /\ parent_indent = UnifyInit.parent_indent
    /\ nested_counter = UnifyInit.nested_counter
    /\ in_code_block = LinesInit.in_code_block
    /\ processed_lines = LinesInit.processed_lines
    /\ written = "None"
    /\ RuleIdle
    /\ SplitIdle
    /\ BatchIdle
    /\ open_handles = {}
    /\ target_files = <<>>

\* one iteration of the loop of process_details_blocks
DetailsLoop ==
    /\ pc = "details"
    /\ i <= Len(lines)
    /\ LET st == DetailsStep([result |-> result, in_details |-> in_details,
                              in_summary |-> in_summary,
                              summary_content |-> summary_content], lines[i])
       IN /\ result' = st.result
          /\ in_details' = st.in_details
          /\ in_summary' = st.in_summary
          /\ summary_content' = st.summary_content
    /\ i' = i + 1
    /\ UNCHANGED <<pc, doc, lines, parent_type, parent_indent, nested_counter,
                   in_code_block, processed_lines, written>>
    /\ UNCHANGED <<ruleVars, splitVars, batchVars>>
    /\ UNCHANGED fileVars
\* lines = process_details_blocks(lines), then unify_nested_list_types starts
DetailsReturn ==
    /\ pc = "details"
    /\ i > Len(lines)
    /\ lines' = result
    /\ result' = UnifyInit.result
    /\ i' = 1
    /\ pc' = "unify"
    /\ UNCHANGED <<doc, in_details, in_summary, summary_content, parent_type,
                   parent_indent, nested_counter, in_code_block, processed_lines,
                   written>>
    /\ UNCHANGED <<ruleVars, splitVars, batchVars>>
    /\ UNCHANGED fileVars
\* one iteration of the loop of unify_nested_list_types
UnifyLoop ==
    /\ pc = "unify"
    /\ i <= Len(lines)
    /\ LET st == UnifyStep([result |-> result, parent_type |-> parent_type,
                            parent_indent |-> parent_indent,
                            nested_counter |-> nested_counter], lines[i])
       IN /\ result' = st.result
          /\ parent_type' = st.parent_type
          /\ parent_indent' = st.parent_indent
          /\ nested_counter' = st.nested_counter
    /\ i' = i + 1
    /\ UNCHANGED <<pc, doc, lines, in_details, in_summary, summary_content,
                   in_code_block, processed_lines, written>>
    /\ UNCHANGED <<ruleVars, splitVars, batchVars>>
    /\ UNCHANGED fileVars
\* lines = unify_nested_list_types(lines), then the per-line pass starts
UnifyReturn ==
    /\ pc = "unify"
    /\ i > Len(lines)
    /\ lines' = result
    /\ i' = 1
    /\ pc' = "lines"
    /\ UNCHANGED <<doc, result, in_details, in_summary, summary_content,
                   parent_type, parent_indent, nested_counter, in_code_block,
                   processed_lines, written>>
    /\ UNCHANGED <<ruleVars, splitVars, batchVars>>
    /\ UNCHANGED fileVars
\* one iteration of the per-line loop of simplify_markdown_file
LineLoop ==
    /\ pc = "lines"
    /\ i <= Len(lines)
    /\ LET st == LineStep([processed_lines |-> processed_lines,
                           in_code_block |-> in_code_block], lines[i])
       IN /\ processed_lines' = st.processed_lines
          /\ in_code_block' = st.in_code_block
    /\ i' = i + 1
    /\ UNCHANGED <<pc, doc, lines, result, in_details, in_summary,
                   summary_content, parent_type, parent_indent, nested_counter,
                   written>>
    /\ UNCHANGED <<ruleVars, splitVars, batchVars>>
    /\ UNCHANGED fileVars
\* f.write('\n'.join(processed_lines))
WriteOutput ==
    /\ pc = "lines"
    /\ i > Len(lines)
    /\ written' = JoinLines(processed_lines)
    /\ pc' = "done"
    /\ UNCHANGED <<doc, lines, i, result, in_details, in_summary,
                   summary_content, parent_type, parent_indent, nested_counter,
                   in_code_block, processed_lines>>
    /\ UNCHANGED <<ruleVars, splitVars, batchVars>>
    /\ UNCHANGED fileVars

Next ==
    \/ DetailsLoop
    \/ DetailsReturn
    \/ UnifyLoop
    \/ UnifyReturn
    \/ LineLoop
    \/ WriteOutput

Spec == Init /\ [][Next]_vars


(***************************************************************************)
(* The section splitter as a state machine: process_directory on one       *)
(* source file.  pc is the position: the loop of parse_markdown_file, its  *)
(* end, the loop of save_sections.                                         *)
(***************************************************************************)
\* the longest source file made of corpus lines
MaxSplitLen == 4
\* the lines the source files are made of:
\*   '## A'           a second-level heading
\*   '  ## B'         an indented second-level heading
\*   '### C'          a third-level heading
\*   ''               a blank line
\*   't'              a line of text
\*   '```'            a backtick fence delimiter
\*   '~~~'            a tilde fence delimiter
\*   '![d](./d.svg)'  an image with a relative path
SplitCorpus == {
    <<"#", "#", " ", "A", "\n">>,
    <<" ", " ", "#", "#", " ", "B", "\n">>,
    <<"#", "#", "#", " ", "C", "\n">>,
    <<"\n">>,
    <<"t", "\n">>,
    <<Tick, Tick, Tick, "\n">>,
    <<Tilde, Tilde, Tilde, "\n">>,
    <<"!", "[", "d", "]", "(", ".", "/", "d", ".", "s", "v", "g", ")", "\n">> }
\* "# Title\n\nIntro\n\n## A\nbody A\n\n## B\nbody B\n" as readlines() returns it
ScenarioDoc == <<
    <<"#", " ", "T", "i", "t", "l", "e", "\n">>,
    <<"\n">>,
    <<"I", "n", "t", "r", "o", "\n">>,
    <<"\n">>,
    <<"#", "#", " ", "A", "\n">>,
    <<"b", "o", "d", "y", " ", "A", "\n">>,
    <<"\n">>,
    <<"#", "#", " ", "B", "\n">>,
    <<"b", "o", "d", "y", " ", "B", "\n">> >>
SplitDocs == UNION {[1..n -> SplitCorpus] : n \in 0..MaxSplitLen} \cup {ScenarioDoc}
\* the source files: a name, the directory it is in and the target directory
CourseFile == <<"0", "1", "_", "c", "o", "u", "r", "s", "e", ".", "m", "d">>
NotesFile == <<"n", "o", "t", "e", "s", ".", "m", "d">>
SqlFile == <<"7", "_", "s", "q", "l", ".", "m", "d">>
Sources == {
    [filename |-> CourseFile,
     source_dir |-> <<"Src", "Base">>, target_dir |-> <<"Src", "Base", "detailed">>],
    [filename |-> NotesFile,
     source_dir |-> <<"Src", "Base">>, target_dir |-> <<"Out">>],
    [filename |-> SqlFile,
     source_dir |-> <<"Src", "Base">>,
     target_dir |-> <<"Src", "Base", "detailed", "sub">>] }

SplitInit ==
    /\ pc = "parse"
    /\ \E src \in Sources :
           /\ filename = src.filename
           /\ source_dir = src.source_dir
           /\ target_dir = src.target_dir
    /\ lines \in SplitDocs
    /\ i = 1
    /\ in_code_block = FALSE
    /\ sections = <<>>
    /\ current_section = <<>>
    /\ created_files = <<>>
    /\ RewriteIdle
    /\ RuleIdle
    /\ BatchIdle
    /\ open_handles = {}
    /\ target_files = <<>>
\* one iteration of the loop of parse_markdown_file
ParseLoop ==
    /\ pc = "parse"
    /\ i <= Len(lines)
    /\ LET st == ParseStep([sections |-> sections,
                            current_section |-> current_section,
                            in_code_block |-> in_code_block], lines[i])
       IN /\ sections' = st.sections
          /\ current_section' = st.current_section
          /\ in_code_block' = st.in_code_block
    /\ i' = i + 1
    /\ UNCHANGED <<pc, lines, filename, source_dir, target_dir, created_files,
                   rewriteVars, ruleVars,
                   batchVars>>
    /\ UNCHANGED fileVars
\* parse_markdown_file returns; process_directory goes on to save_sections
\* unless there is no section
ParseReturn ==
    /\ pc = "parse"
    /\ i > Len(lines)
    /\ sections' = ParseEnd([sections |-> sections,
                             current_section |-> current_section,
                             in_code_block |-> in_code_block])
    /\ pc' = IF sections' = <<>> THEN "split_done" ELSE "save"
    /\ i' = 1
    /\ UNCHANGED <<lines, in_code_block, current_section, filename, source_dir,
                   target_dir, created_files, rewriteVars, ruleVars,
                   batchVars>>
    /\ UNCHANGED fileVars
\* one iteration of the loop of save_sections: section i is written
SaveSection ==
    /\ pc = "save"
    /\ i <= Len(sections)
    /\ created_files' = Append(created_files,
           [name |-> SectionFileName(extract_file_prefix(filename), i),
            content |-> SectionContent(sections[i],
                            calculate_path_adjustment(source_dir, target_dir), 1)])
    /\ i' = i + 1
    /\ target_files' = Append(target_files,
           SectionFileName(extract_file_prefix(filename), i))
    /\ UNCHANGED <<pc, lines, in_code_block, sections, current_section, filename,
                   source_dir, target_dir, rewriteVars, ruleVars,
                   batchVars, open_handles>>
\* save_sections returns
SaveReturn ==
    /\ pc = "save"
    /\ i > Len(sections)
    /\ pc' = "split_done"
    /\ UNCHANGED <<lines, i, in_code_block, sections, current_section, filename,
                   source_dir, target_dir, created_files, rewriteVars, ruleVars,
                   batchVars>>
    /\ UNCHANGED fileVars
SplitNext ==
    \/ ParseLoop
    \/ ParseReturn
    \/ SaveSection
    \/ SaveReturn
SplitSpec == SplitInit /\ [][SplitNext]_vars

(***************************************************************************)
(* The nested-list unifier on its own: the call of unify_nested_list_types *)
(* in simplify_markdown_file, on documents without collapsible blocks.     *)
(***************************************************************************)
\* the longest document the unifier reads
MaxUnifyLen == 4
\* the lines of these documents:
\*   '- a'      a bulleted item without indentation
\*   '1. a'     a numbered item without indentation
\*   '  - b'    an indented bulleted item
\*   '  3. c'   an indented numbered item
\*   '\t- d'    a bulleted item indented by a tab
\*   ''         an empty line
\*   '  '       a line of two spaces
\*   '  t'      indented text
\*   't'        text without indentation
UnifyCorpus == {
    <<"-", " ", "a">>,
    <<"1", ".", " ", "a">>,
    <<" ", " ", "-", " ", "b">>,
    <<" ", " ", "3", ".", " ", "c">>,
    <<"\t", "-", " ", "d">>,
    <<>>,
    <<" ", " ">>,
    <<" ", " ", "t">>,
    <<"t">> }
UnifyDocs == UNION {[1..n -> UnifyCorpus] : n \in 0..MaxUnifyLen}
\* simplify_markdown_file has read a document without collapsible blocks and
\* calls unify_nested_list_types
UnifySpecInit ==
    /\ doc \in UnifyDocs
    /\ lines = doc
    /\ pc = "unify"
    /\ i = 1
    /\ result = UnifyInit.result
    /\ in_details = DetailsInit.in_details
    /\ in_summary = DetailsInit.in_summary
    /\ summary_content = DetailsInit.summary_content
    /\ parent_type = UnifyInit.parent_type
    /\ parent_indent = UnifyInit.parent_indent
    /\ nested_counter = UnifyInit.nested_counter
    /\ in_code_block = LinesInit.in_code_block
    /\ processed_lines = LinesInit.processed_lines
    /\ written = "None"
    /\ RuleIdle
    /\ SplitIdle
    /\ BatchIdle
    /\ open_handles = {}
    /\ target_files = <<>>
UnifySpec == UnifySpecInit /\ [][UnifyLoop \/ UnifyReturn]_vars

(***************************************************************************)
(* The collapsible-block expander on its own: the call of                  *)
(* process_details_blocks in simplify_markdown_file.                       *)
(***************************************************************************)
\* the longest document the expander reads
MaxDetailsLen == 3
\* the lines of these documents:
\*   '<details>'                       a block-open marker
\*   '<DETAILS> '                      a block-open marker and a space
\*   '<details>x'                      a block-open marker and content
\*   '<details><summary>L</summary>'   block-open marker and label on one line
\*   '<summary>L</summary>'            a label on one line
\*   '<summary>'                       a summary-open marker
\*   '</summary>'                      a summary-close marker
\*   '</details>'                      a block-close marker
\*   'L'                               text
\*   ''                                a blank line
DetailsCorpus == {
    DetailsOpen,
    <<"<","D","E","T","A","I","L","S",">"," ">>,
    DetailsOpen \o <<"x">>,
    DetailsOpen \o SummaryOpen \o <<"L">> \o SummaryClose,
    SummaryOpen \o <<"L">> \o SummaryClose,
    SummaryOpen,
    SummaryClose,
    DetailsClose,
    <<"L">>,
    <<>> }
DetailsDocs == UNION {[1..n -> DetailsCorpus] : n \in 0..MaxDetailsLen}
\* simplify_markdown_file has read a document and calls process_details_blocks
DetailsSpecInit ==
    /\ doc \in DetailsDocs
    /\ lines = doc
    /\ pc = "details"
    /\ i = 1
    /\ result = DetailsInit.result
    /\ in_details = DetailsInit.in_details
    /\ in_summary = DetailsInit.in_summary
    /\ summary_content = DetailsInit.summary_content
    /\ parent_type = UnifyInit.parent_type
    /\ parent_indent = UnifyInit.parent_indent
    /\ nested_counter = UnifyInit.nested_counter
    /\ in_code_block = LinesInit.in_code_block
    /\ processed_lines = LinesInit.processed_lines
    /\ written = "None"
    /\ RuleIdle
    /\ SplitIdle
    /\ BatchIdle
    /\ open_handles = {}
    /\ target_files = <<>>
DetailsSpec == DetailsSpecInit /\ [][DetailsLoop \/ DetailsReturn]_vars

(***************************************************************************)
(* The per-line pass on its own: the loop of simplify_markdown_file and    *)
(* the write, on the lines the two pre-passes return.                      *)
(***************************************************************************)
\* the longest document the pass reads
MaxPassLen == 3
\* a reveal label: 'Показать ответ'
RevealLabel == ShowWord \o <<" ">> \o <<"U+043E","U+0442","U+0432","U+0435","U+0442">>
\* the lines of these documents:
\*   'Показать ответ'       a reveal label
\*   '**ПОКАЗАТЬ ответ**'   a reveal label in bold, the first word in capitals
\*   '```'                  a fence delimiter
\*   ''                     an empty line
\*   ' '                    a line of one space
\*   '> # T'                a heading inside a blockquote
PassCorpus == {
    RevealLabel,
    <<"*", "*", "U+041F","U+041E","U+041A","U+0410","U+0417","U+0410","U+0422","U+042C",
      " ", "U+043E","U+0442","U+0432","U+0435","U+0442", "*", "*">>,
    <<Tick, Tick, Tick>>,
    <<>>,
    <<" ">>,
    <<">", " ", "#", " ", "T">> }
PassDocs == UNION {[1..n -> PassCorpus] : n \in 0..MaxPassLen}
\* simplify_markdown_file has run the two pre-passes and starts its loop
PassInit ==
    /\ doc \in PassDocs
    /\ lines = unify_nested_list_types(process_details_blocks(doc))
    /\ pc = "lines"
    /\ i = 1
    /\ result = lines
    /\ in_details = DetailsInit.in_details
    /\ in_summary = DetailsInit.in_summary
    /\ summary_content = DetailsInit.summary_content
    /\ parent_type = UnifyInit.parent_type
    /\ parent_indent = UnifyInit.parent_indent
    /\ nested_counter = UnifyInit.nested_counter
    /\ in_code_block = LinesInit.in_code_block
    /\ processed_lines = LinesInit.processed_lines
    /\ written = "None"
    /\ RuleIdle
    /\ SplitIdle
    /\ BatchIdle
    /\ open_handles = {}
    /\ target_files = <<>>
PassSpec == PassInit /\ [][LineLoop \/ WriteOutput]_vars

(***************************************************************************)
(* A batch: main and process_directory of simplify_markdown.py (main and   *)
(* process_directory of split_markdown.py have the same loops and the same *)
(* try).  A file is read, transformed and written by one call; fails tells *)
(* whether that call raises (the file cannot be read, decoded or written). *)
(***************************************************************************)
\* the most directory pairs of the configuration
MaxDirs == 2
\* the most .md files of a directory
MaxFiles == 2
Files == [fails : BOOLEAN]
Directories == UNION {[1..n -> Files] : n \in 0..MaxFiles}
Batches == UNION {[1..n -> Directories] : n \in 1..MaxDirs}

BatchInit ==
    /\ pc = "main"
    /\ directories \in Batches
    /\ dir_idx = 1
    /\ file_idx = 1
    /\ total_processed = 0
    /\ handled = {}
    /\ md_files = <<>>
    /\ lines = <<>> /\ i = 1 /\ in_code_block = FALSE
    /\ RewriteIdle
    /\ RuleIdle
    /\ SplitIdle
    /\ open_handles = {}
    /\ target_files = <<>>
\* main: the next directory pair; try: process_directory(...)
EnterDirectory ==
    /\ pc = "main"
    /\ dir_idx <= Len(directories)
    /\ pc' = "directory"
    /\ file_idx' = 1
    /\ UNCHANGED <<directories, dir_idx, total_processed, handled, md_files>>
    /\ UNCHANGED <<lines, i, in_code_block, rewriteVars, ruleVars, splitVars>>
    /\ UNCHANGED fileVars
\* process_directory: simplify_markdown_file(md_file, ...) returns
FileDone ==
    /\ pc = "directory"
    /\ file_idx <= Len(directories[dir_idx])
    /\ ~directories[dir_idx][file_idx].fails
    /\ handled' = handled \cup {<<dir_idx, file_idx>>}
    /\ file_idx' = file_idx + 1
    /\ UNCHANGED <<pc, directories, dir_idx, total_processed, md_files>>
    /\ UNCHANGED <<lines, i, in_code_block, rewriteVars, ruleVars, splitVars>>
    /\ UNCHANGED fileVars
\* process_directory: simplify_markdown_file(md_file, ...) raises; nothing
\* in process_directory catches, the except of main does and its loop goes
\* on to the next directory pair
FileRaises ==
    /\ pc = "directory"
    /\ file_idx <= Len(directories[dir_idx])
    /\ directories[dir_idx][file_idx].fails
    /\ pc' = "main"
    /\ dir_idx' = dir_idx + 1
    /\ UNCHANGED <<directories, file_idx, total_processed, handled, md_files>>
    /\ UNCHANGED <<lines, i, in_code_block, rewriteVars, ruleVars, splitVars>>
    /\ UNCHANGED fileVars
\* process_directory returns; total_processed += 1
DirectoryReturn ==
    /\ pc = "directory"
    /\ file_idx > Len(directories[dir_idx])
    /\ total_processed' = total_processed + 1
    /\ pc' = "main"
    /\ dir_idx' = dir_idx + 1
    /\ UNCHANGED <<directories, file_idx, handled, md_files>>
    /\ UNCHANGED <<lines, i, in_code_block, rewriteVars, ruleVars, splitVars>>
    /\ UNCHANGED fileVars
\* the loop of main is through
BatchReturn ==
    /\ pc = "main"
    /\ dir_idx > Len(directories)
    /\ pc' = "batch_done"
    /\ UNCHANGED batchVars
    /\ UNCHANGED <<lines, i, in_code_block, rewriteVars, ruleVars, splitVars>>
    /\ UNCHANGED fileVars
BatchNext ==
    \/ EnterDirectory
    \/ FileDone
    \/ FileRaises
    \/ DirectoryReturn
    \/ BatchReturn
BatchSpec == BatchInit /\ [][BatchNext]_vars

(***************************************************************************)
(* Two files of one directory, one after the other: the loop of            *)
(* process_directory calls simplify_markdown_file (the rewrite tool) or    *)
(* parse_markdown_file and save_sections (the splitter) for the first      *)
(* file, then for the second file of md_files.                             *)
(***************************************************************************)
\* the longest first file of a sequence
MaxSeqLen == 2
\* the longest second file of a sequence
MaxSecondLen == 1
\* the lines of the files the rewrite tool takes in sequence:
\*   '```'          opens a fence that is not closed
\*   '- a'          a list parent
\*   '  1. b'       a nested item
\*   '<details>x'   opens a collapsible block that is not closed
\*   '# T'          a heading the rules rewrite
SeqCorpus == {
    <<Tick, Tick, Tick>>,
    <<"-", " ", "a">>,
    <<" ", " ", "1", ".", " ", "b">>,
    <<"<", "d", "e", "t", "a", "i", "l", "s", ">", "x">>,
    <<"#", " ", "T">> }
SeqDocs == UNION {[1..n -> SeqCorpus] : n \in 0..MaxSeqLen}
SecondDocs == UNION {[1..n -> SeqCorpus] : n \in 0..MaxSecondLen}
\* the lines of the files the splitter takes in sequence
SeqSplitCorpus == {
    <<Tick, Tick, Tick, "\n">>,
    <<"#", "#", " ", "A", "\n">>,
    <<"t", "\n">>,
    <<"!", "[", "d", "]", "(", ".", "/", "d", ".", "s", "v", "g", ")", "\n">> }
SeqSplitDocs == UNION {[1..n -> SeqSplitCorpus] : n \in 0..MaxSeqLen}
SecondSplitDocs == UNION {[1..n -> SeqSplitCorpus] : n \in 0..MaxSecondLen}

\* the rewrite tool, or the splitter, starts on the first of two files
SeqInit ==
    \/ /\ doc \in SeqDocs
       /\ lines = doc
       /\ pc = "details"
       /\ i = 1
       /\ result = DetailsInit.result
       /\ in_details = DetailsInit.in_details
       /\ in_summary = DetailsInit.in_summary
       /\ summary_content = DetailsInit.summary_content
       /\ parent_type = UnifyInit.parent_type
       /\ parent_indent = UnifyInit.parent_indent
       /\ nested_counter = UnifyInit.nested_counter
       /\ in_code_block = LinesInit.in_code_block
       /\ processed_lines = LinesInit.processed_lines
       /\ written = "None"
       /\ RuleIdle
       /\ SplitIdle
       /\ directories = <<>> /\ dir_idx = 1 /\ file_idx = 1
       /\ total_processed = 0 /\ handled = {}
       /\ \E d \in SecondDocs :
              md_files = <<[filename |-> CourseFile, lines |-> doc],
                           [filename |-> NotesFile, lines |-> d]>>
    \/ /\ pc = "parse"
       /\ \E src \in Sources :
              /\ src.filename # NotesFile
              /\ filename = src.filename
              /\ source_dir = src.source_dir
              /\ target_dir = src.target_dir
       /\ lines \in SeqSplitDocs
       /\ i = 1
       /\ in_code_block = ParseInit.in_code_block
       /\ sections = ParseInit.sections
       /\ current_section = ParseInit.current_section
       /\ created_files = <<>>
       /\ RewriteIdle
       /\ RuleIdle
       /\ directories = <<>> /\ dir_idx = 1 /\ file_idx = 1
       /\ total_processed = 0 /\ handled = {}
       /\ \E d \in SecondSplitDocs :
              md_files = <<[filename |-> filename, lines |-> lines],
                           [filename |-> NotesFile, lines |-> d]>>
    /\ open_handles = {}
    /\ target_files = <<>>
\* a next file that goes on with the fence flag and the list context the
\* file before left
NextFileKeepingState ==
    /\ pc = "done"
    /\ file_idx < Len(md_files)
    /\ file_idx' = file_idx + 1
    /\ doc' = md_files[file_idx + 1].lines
    /\ lines' = doc'
    /\ pc' = "details"
    /\ i' = 1
    /\ result' = DetailsInit.result
    /\ processed_lines' = LinesInit.processed_lines
    /\ written' = "None"
    /\ UNCHANGED <<in_details, in_summary, summary_content, parent_type,
                   parent_indent, nested_counter, in_code_block>>
    /\ UNCHANGED <<directories, dir_idx, total_processed, handled, md_files>>
    /\ UNCHANGED <<ruleVars, splitVars>>
    /\ UNCHANGED fileVars
\* process_directory of the rewrite tool calls simplify_markdown_file for
\* the next file: the file is read and the locals of the passes are set as
\* each pass sets them when it starts
NextFile ==
    /\ pc = "done"
    /\ file_idx < Len(md_files)
    /\ file_idx' = file_idx + 1
    /\ doc' = md_files[file_idx + 1].lines
    /\ lines' = doc'
    /\ pc' = "details"
    /\ i' = 1
    /\ result' = DetailsInit.result
    /\ in_details' = DetailsInit.in_details
    /\ in_summary' = DetailsInit.in_summary
    /\ summary_content' = DetailsInit.summary_content
    /\ parent_type' = UnifyInit.parent_type
    /\ parent_indent' = UnifyInit.parent_indent
    /\ nested_counter' = UnifyInit.nested_counter
    /\ in_code_block' = LinesInit.in_code_block
    /\ processed_lines' = LinesInit.processed_lines
    /\ written' = "None"
    /\ UNCHANGED <<directories, dir_idx, total_processed, handled, md_files>>
    /\ UNCHANGED <<ruleVars, splitVars>>
    /\ UNCHANGED fileVars
\* process_directory of the splitter calls parse_markdown_file for the next
\* file
NextSourceFile ==
    /\ pc = "split_done"
    /\ file_idx < Len(md_files)
    /\ file_idx' = file_idx + 1
    /\ filename' = md_files[file_idx + 1].filename
    /\ lines' = md_files[file_idx + 1].lines
    /\ pc' = "parse"
    /\ i' = 1
    /\ in_code_block' = ParseInit.in_code_block
    /\ sections' = ParseInit.sections
    /\ current_section' = ParseInit.current_section
    /\ created_files' = <<>>
    /\ UNCHANGED <<source_dir, target_dir>>
    /\ UNCHANGED <<directories, dir_idx, total_processed, handled, md_files>>
    /\ UNCHANGED <<rewriteVars, ruleVars>>
    /\ UNCHANGED fileVars
SeqNext ==
    \/ Next
    \/ NextFile
    \/ SplitNext
    \/ NextSourceFile
SeqSpec == SeqInit /\ [][SeqNext]_vars

(***************************************************************************)
(* One file and its handles: simplify_markdown_file, and                   *)
(* parse_markdown_file with save_sections, from the open of the input to   *)
(* the close of the last output.  An exception may leave the call at any   *)
(* position; every open is the head of a with statement.                   *)
(***************************************************************************)
\* the longest file read
MaxFileLen == 2
\* the lines of a file the rewrite tool reads: '# T', '- a'
FileCorpus == { <<"#", " ", "T">>, <<"-", " ", "a">> }
FileDocs == UNION {[1..n -> FileCorpus] : n \in 0..MaxFileLen}
\* the lines of a file the splitter reads: '## A\n', '![d](./d.svg)\n', '\n'
FileSplitCorpus == {
    <<"#", "#", " ", "A", "\n">>,
    <<"!", "[", "d", "]", "(", ".", "/", "d", ".", "s", "v", "g", ")", "\n">>,
    <<"\n">> }
FileSplitDocs == UNION {[1..n -> FileSplitCorpus] : n \in 0..MaxFileLen}
\* the output file of the rewrite, and what it holds from an earlier run;
\* created_files is the listing of the target directory
OutputName == <<"o", "u", "t", ".", "m", "d">>
OldText == <<"o", "l", "d">>
OldOutput == <<[name |-> OutputName, content |-> OldText]>>
\* the positions where a call has ended
Ended == {"done", "split_done", "raised", "raised_in_write"}
\* the call runs the splitter: it has a source file name
IsSplitterCall == filename # <<>>
FileInit ==
    /\ pc = "open_input"
    /\ \/ /\ doc \in FileDocs
          /\ filename = <<>> /\ source_dir = <<>> /\ target_dir = <<>>
          /\ sections = <<>> /\ current_section = <<>>
          /\ created_files \in {<<>>, OldOutput}
       \/ /\ doc \in FileSplitDocs
          /\ \E src \in Sources :
                 /\ src.filename = CourseFile
                 /\ filename = src.filename
                 /\ source_dir = src.source_dir
                 /\ target_dir = src.target_dir
          /\ sections = <<>> /\ current_section = <<>> /\ created_files = <<>>
    /\ lines = <<>>
    /\ i = 1
    /\ written = "None"
    /\ result = DetailsInit.result
    /\ in_details = DetailsInit.in_details
    /\ in_summary = DetailsInit.in_summary
    /\ summary_content = DetailsInit.summary_content
    /\ parent_type = UnifyInit.parent_type
    /\ parent_indent = UnifyInit.parent_indent
    /\ nested_counter = UnifyInit.nested_counter
    /\ in_code_block = LinesInit.in_code_block
    /\ processed_lines = LinesInit.processed_lines
    /\ RuleIdle
    /\ BatchIdle
    /\ open_handles = {}
    /\ target_files = <<>>
\* with open(input_path, 'r', ...) as f
OpenInput ==
    /\ pc = "open_input"
    /\ open_handles' = open_handles \cup {"input"}
    /\ UNCHANGED target_files
    /\ pc' = "read"
    /\ UNCHANGED <<lines, i, in_code_block, rewriteVars, ruleVars, splitVars,
                   batchVars>>
\* lines = f.readlines()
ReadLines ==
    /\ pc = "read"
    /\ lines' = doc
    /\ pc' = "close_input"
    /\ UNCHANGED <<i, in_code_block, rewriteVars, ruleVars, splitVars, batchVars,
                   fileVars>>
\* a with block that ends and keeps its handle
CloseInputKeepingHandle ==
    /\ pc = "close_input"
    /\ pc' = IF IsSplitterCall THEN "parse" ELSE "details"
    /\ UNCHANGED <<lines, i, in_code_block, rewriteVars, ruleVars, splitVars,
                   batchVars, fileVars>>
\* the with block of the input ends: the handle is released, and the call
\* goes on to its first pass
CloseInput ==
    /\ pc = "close_input"
    /\ open_handles' = open_handles \ {"input"}
    /\ UNCHANGED target_files
    /\ pc' = IF IsSplitterCall THEN "parse" ELSE "details"
    /\ UNCHANGED <<lines, i, in_code_block, rewriteVars, ruleVars, splitVars,
                   batchVars>>
\* with open(output_path, 'w', ...) as f: the file is created, or emptied
OpenOutput ==
    /\ pc = "lines"
    /\ i > Len(lines)
    /\ open_handles' = open_handles \cup {"output"}
    /\ UNCHANGED target_files
    /\ created_files' = <<[name |-> OutputName, content |-> <<>>]>>
    /\ pc' = "write"
    /\ UNCHANGED <<lines, i, in_code_block, rewriteVars, ruleVars, filename,
                   source_dir, target_dir, sections, current_section, batchVars>>
\* f.write('\n'.join(processed_lines))
WriteJoined ==
    /\ pc = "write"
    /\ written' = JoinLines(processed_lines)
    /\ created_files' = [created_files EXCEPT ![1].content = written']
    /\ pc' = "close_output"
    /\ UNCHANGED <<lines, i, in_code_block, doc, result, in_details, in_summary,
                   summary_content, parent_type, parent_indent, nested_counter,
                   processed_lines, ruleVars, filename, source_dir, target_dir,
                   sections, current_section, batchVars, fileVars>>
\* the with block of the output ends
CloseOutput ==
    /\ pc = "close_output"
    /\ open_handles' = open_handles \ {"output"}
    /\ UNCHANGED target_files
    /\ pc' = "done"
    /\ UNCHANGED <<lines, i, in_code_block, rewriteVars, ruleVars, splitVars,
                   batchVars>>
\* save_sections: the lines of section i are adjusted and joined
AdjustSection ==
    /\ pc = "save"
    /\ i <= Len(sections)
    /\ rule_out' = SectionContent(sections[i],
                       calculate_path_adjustment(source_dir, target_dir), 1)
    /\ pc' = "open_section"
    /\ UNCHANGED <<lines, i, in_code_block, rewriteVars, link_parts, rule_in,
                   levels_up, splitVars, batchVars, fileVars>>
\* with open(file_path, 'w', ...) as f: the section file is created, or
\* emptied
OpenSectionFile ==
    /\ pc = "open_section"
    /\ open_handles' = open_handles \cup {"output"}
    /\ target_files' = Append(target_files,
           SectionFileName(extract_file_prefix(filename), i))
    /\ created_files' = Append(created_files,
           [name |-> SectionFileName(extract_file_prefix(filename), i),
            content |-> <<>>])
    /\ pc' = "write_section"
    /\ UNCHANGED <<lines, i, in_code_block, rewriteVars, ruleVars, filename,
                   source_dir, target_dir, sections, current_section, batchVars>>
\* f.write(content)
WriteSection ==
    /\ pc = "write_section"
    /\ created_files' = [created_files EXCEPT ![Len(created_files)].content = rule_out]
    /\ pc' = "close_section"
    /\ UNCHANGED <<lines, i, in_code_block, rewriteVars, ruleVars, filename,
                   source_dir, target_dir, sections, current_section, batchVars,
                   fileVars>>
\* the with block of the section file ends; the loop goes on
CloseSectionFile ==
    /\ pc = "close_section"
    /\ open_handles' = open_handles \ {"output"}
    /\ UNCHANGED target_files
    /\ i' = i + 1
    /\ pc' = "save"
    /\ UNCHANGED <<lines, in_code_block, rewriteVars, ruleVars, splitVars,
                   batchVars>>
\* an exception leaves the call: a with block that is left releases its
\* handle
Raises ==
    /\ pc \notin Ended
    /\ pc' = IF "output" \in open_handles THEN "raised_in_write" ELSE "raised"
    /\ open_handles' = {}
    /\ UNCHANGED target_files
    /\ UNCHANGED <<lines, i, in_code_block, rewriteVars, ruleVars, splitVars,
                   batchVars>>
FileSpec ==
    FileInit /\ [][\/ OpenInput
                   \/ ReadLines
                   \/ CloseInput
                   \/ DetailsLoop
                   \/ DetailsReturn
                   \/ UnifyLoop
                   \/ UnifyReturn
                   \/ LineLoop
                   \/ OpenOutput
                   \/ WriteJoined
                   \/ CloseOutput
                   \/ ParseLoop
                   \/ ParseReturn
                   \/ AdjustSection
                   \/ OpenSectionFile
                   \/ WriteSection
                   \/ CloseSectionFile
                   \/ SaveReturn
                   \/ Raises]_vars

(***************************************************************************)
(* Properties of the rewrite tool, checked under Spec                      *)
(***************************************************************************)
\* the number of fence-delimiter lines among ls[1..k]
FenceCount(ls, k) == Cardinality({j \in 1..k : IsFenceLine(ls[j])})
\* line k of ls lies strictly between an opening fence line and the fence
\* line that closes it
InFencedRegion(ls, k) ==
    /\ ~IsFenceLine(ls[k])
    /\ FenceCount(ls, k - 1) % 2 = 1
    /\ \E j \in (k + 1)..Len(ls) : IsFenceLine(ls[j])
\* line k of ls is outside fenced code
OutsideFence(ls, k) == ~IsFenceLine(ls[k]) /\ FenceCount(ls, k - 1) % 2 = 0
\* the lines of ls[k..] that lie inside a fenced region, in order
RECURSIVE FencedLines(_,_)
FencedLines(ls, k) ==
    IF k > Len(ls) THEN <<>>
    ELSE (IF InFencedRegion(ls, k) THEN <<ls[k]>> ELSE <<>>) \o FencedLines(ls, k + 1)
\* a is b with some elements left out
RECURSIVE IsSubseq(_,_)
IsSubseq(a, b) ==
    IF a = <<>> THEN TRUE
    ELSE IF b = <<>> THEN FALSE
    ELSE IF Head(a) = Head(b) THEN IsSubseq(Tail(a), Tail(b))
    ELSE IsSubseq(a, Tail(b))
\* the index of the last fence-delimiter line of ls, 0 when there is none
LastFence(ls) ==
    IF \E j \in 1..Len(ls) : IsFenceLine(ls[j])
    THEN CHOOSE j \in 1..Len(ls) :
             IsFenceLine(ls[j]) /\ \A m \in (j + 1)..Len(ls) : ~IsFenceLine(ls[m])
    ELSE 0

\* C1: when the whole rewrite of a document is done, the input lines that lie
\* strictly between an opening fence line and its closing fence line are all
\* in the output, with their input text and in their input order.
C1_FencedLinesPreserved ==
    pc = "done" => IsSubseq(FencedLines(doc, 1), processed_lines)

\* C2, the flag: in the per-line pass the fence flag at a line is the parity
\* of the number of fence-delimiter lines before it.
C2_FlagIsParity ==
    pc = "lines" => (in_code_block <=> FenceCount(lines, i - 1) % 2 = 1)
\* C2, the tail: after a document with an odd number of delimiters the lines
\* after the last delimiter are at the end of the output as they were
\* received, and the pass went through to the write.
C2_OddTailUntouched ==
    (pc = "done" /\ FenceCount(lines, Len(lines)) % 2 = 1) =>
        /\ Len(processed_lines) >= Len(lines) - LastFence(lines)
        /\ SubSeq(processed_lines,
                  Len(processed_lines) - (Len(lines) - LastFence(lines)) + 1,
                  Len(processed_lines))
           = SubSeq(lines, LastFence(lines) + 1, Len(lines))
\* C2, the pass-through: a step of the per-line pass on a delimiter line, or
\* on any line while the flag is true, emits the line as received; a
\* delimiter flips the flag and no other line changes it.
C2_PassThrough ==
    (pc = "lines" /\ i <= Len(lines) /\ i' = i + 1) =>
        /\ (in_code_block \/ IsFenceLine(lines[i])) =>
               processed_lines' = Append(processed_lines, lines[i])
        /\ in_code_block' = (IF IsFenceLine(lines[i]) THEN ~in_code_block
                             ELSE in_code_block)
\* C2: the fence flag of the per-line pass is the parity of the delimiters
\* seen, lines under a true flag and delimiter lines are emitted unchanged,
\* and with an odd number of delimiters the tail is emitted untransformed.
C2_FenceTracker ==
    /\ [](C2_FlagIsParity /\ C2_OddTailUntouched)
    /\ [][C2_PassThrough]_vars
\* a document with one delimiter was written, and the heading after the
\* delimiter, which the rules would rewrite, is in the output as it was
C2_Witness ==
    /\ pc = "done"
    /\ FenceCount(lines, Len(lines)) = 1
    /\ LastFence(lines) < Len(lines)
    /\ ApplyRules(lines[Len(lines)]) # lines[Len(lines)]
    /\ processed_lines[Len(processed_lines)] = lines[Len(lines)]

\* C3: the rewrite of the output of a rewrite is that output, for documents
\* without blockquote lines (the lines of the operator-quoting quirk).
C3_Idempotent ==
    (pc = "done" /\ \A k \in 1..Len(doc) : ~IsBlockquote(doc[k])) =>
        Rewrite(processed_lines) = processed_lines

\* C4: in the output every list item outside fenced code has no inline-code
\* marker and no bold marker.
C4_NoCodeNoBoldInListItems ==
    pc = "done" =>
        \A k \in 1..Len(processed_lines) :
            (OutsideFence(processed_lines, k) /\ IsListItem(processed_lines[k])) =>
                /\ ~Contains(processed_lines[k], <<Tick>>)
                /\ ~Contains(processed_lines[k], <<"*", "*">>)

\* an asterisk at index j of s that is no part of a bold marker: an italic
\* marker
IsItalicMarker(s, j) ==
    /\ s[j] = "*"
    /\ (j = 1 \/ s[j - 1] # "*")
    /\ (j = Len(s) \/ s[j + 1] # "*")
\* index j of s lies in a literal * * * token
InRuleToken(s, j) ==
    \E a \in {j - 4, j - 2, j} : MatchAt(s, a, <<"*", " ", "*", " ", "*">>)
\* C5: in the output every numbered list item outside fenced code has no
\* italic marker, aside from those of a literal * * * token.
C5_NoItalicInNumberedItems ==
    pc = "done" =>
        \A k \in 1..Len(processed_lines) :
            (OutsideFence(processed_lines, k) /\ IsNumberedItem(processed_lines[k])) =>
                \A j \in 1..Len(processed_lines[k]) :
                    IsItalicMarker(processed_lines[k], j) =>
                        InRuleToken(processed_lines[k], j)

\* s has the form of a heading: 1 to 6 '#', whitespace, text
IsHeadingForm(s) == HeaderGroupStart(s) > 0
\* C6: in the output every line outside fenced code that has the form of a
\* heading has exactly three '#'.
C6_HeadingsAtLevelThree ==
    pc = "done" =>
        \A k \in 1..Len(processed_lines) :
            (OutsideFence(processed_lines, k) /\ IsHeadingForm(processed_lines[k])) =>
                SkipWhile(IsHash, processed_lines[k], 1) - 1 = 3

\* the rules after reveal-label removal in the order C17 lists them, each
\* applied once to the result of the one before
HeadingToEmoji(line) ==
    fix_emoji_at_list_start(remove_code_in_lists(remove_bold_in_lists(
        fix_code_with_dash_in_lists(fix_bold_colon_in_lists(
            remove_checklists(normalize_headers(line)))))))
HtmlToLinks(line) ==
    convert_markdown_links(remove_bare_urls(remove_blockquotes(
        remove_html_tags(line))))
OperatorsToItalics(line) ==
    remove_italic_in_lists(wrap_technical_terms_in_italic_except_images(
        remove_inline_code_everywhere(quote_operators_in_lists(line))))
RulesInListedOrder(line) ==
    Bind(HeadingToEmoji(line), LAMBDA a :
        Bind(HtmlToLinks(a), LAMBDA b : OperatorsToItalics(b)))
\* C17, the pre-passes: while a pre-pass runs no line has gone through the
\* per-line pass; the nested-list unifier reads the whole output of the
\* collapsible-block expander and the per-line pass the whole output of the
\* unifier.
C17_PrePassesFirst ==
    /\ pc \in {"details", "unify"} => processed_lines = <<>>
    /\ pc = "details" => lines = doc
    /\ pc = "unify" => lines = process_details_blocks(doc)
    /\ pc \in {"lines", "done"} =>
           lines = unify_nested_list_types(process_details_blocks(doc))
\* C17, the rules: a step of the per-line pass on a line outside fences that
\* reveal-label removal does not drop emits the line after the rules in the
\* listed order.
C17_RulesInOrder ==
    (/\ pc = "lines" /\ i <= Len(lines) /\ i' = i + 1
     /\ ~in_code_block /\ ~IsFenceLine(lines[i])
     /\ ~remove_show_answer_headers_drops(lines[i])) =>
        processed_lines' = Append(processed_lines, RulesInListedOrder(lines[i]))
\* C17: both pre-passes run over the whole document, the expander first,
\* before any per-line rule runs, and every line outside fences that is not
\* dropped goes through the sixteen rules once each in the listed order.
C17_FixedOrder ==
    /\ []C17_PrePassesFirst
    /\ [][C17_RulesInOrder]_vars
\* a document the pre-passes changed was written, and its list item with
\* an HTML bold tag came out with bold markers: the bold strip ran before
\* the HTML tag unwrap
C17_Witness ==
    /\ pc = "done"
    /\ lines # doc
    /\ \E k \in 1..Len(lines) :
           /\ lines[k] = <<"-", " ", "<", "b", ">", "x", "<", "/", "b", ">">>
           /\ OutsideFence(lines, k)
           /\ \E m \in 1..Len(processed_lines) :
                  processed_lines[m] = <<"-", " ", "*", "*", "x", "*", "*">>

(***************************************************************************)
(* The link-conversion rule on one line: convert_markdown_links applied to *)
(* a line put together from parts, a part being plain text or one link.    *)
(***************************************************************************)
\* the most parts a line is made of
MaxParts == 2
LinkTexts == { <<"D", "o", "c">> }
UrlProtocols == { <<>>,
                  <<"h","t","t","p",":","/","/">>,
                  <<"h","t","t","p","s",":","/","/">> }
UrlStems == { <<"x", ".", "o", "/", "p">> }
\* the endings of the urls: none, the image extensions as the rule lists
\* them, and one in upper case
UrlEndings == image_extensions \cup { <<>>, <<".", "P", "N", "G">> }
PlainParts == { [kind |-> "plain", s |-> <<"a", " ">>],
                [kind |-> "plain", s |-> <<"[", "c", "]", " ">>] }
LinkParts == [kind : {"link"}, bang : BOOLEAN, text : LinkTexts,
              protocol : UrlProtocols, stem : UrlStems, ending : UrlEndings]
Parts == PlainParts \cup LinkParts
\* a part as it is written on the line
PartSource(p) ==
    IF p.kind = "plain" THEN p.s
    ELSE (IF p.bang THEN <<"!">> ELSE <<>>) \o <<"[">> \o p.text \o <<"]", "(">>
         \o p.protocol \o p.stem \o p.ending \o <<")">>
RECURSIVE LineOfParts(_,_)
LineOfParts(ps, k) ==
    IF k > Len(ps) THEN <<>> ELSE PartSource(ps[k]) \o LineOfParts(ps, k + 1)

LinkInit ==
    /\ pc = "rule"
    /\ link_parts \in UNION {[1..n -> Parts] : n \in 0..MaxParts}
    /\ rule_in = LineOfParts(link_parts, 1)
    /\ rule_out = <<>>
    /\ levels_up = 0
    /\ lines = <<>> /\ i = 1 /\ in_code_block = FALSE
    /\ RewriteIdle
    /\ SplitIdle
    /\ BatchIdle
    /\ open_handles = {}
    /\ target_files = <<>>
\* line = convert_markdown_links(line)
ConvertLinks ==
    /\ pc = "rule"
    /\ rule_out' = convert_markdown_links(rule_in)
    /\ pc' = "rule_done"
    /\ UNCHANGED <<link_parts, rule_in, levels_up, lines, i, in_code_block,
                   rewriteVars, splitVars, batchVars>>
    /\ UNCHANGED fileVars
LinkNext == ConvertLinks
LinkSpec == LinkInit /\ [][LinkNext]_vars

\* what the claim says a part becomes: a link written with image syntax or
\* with a url that ends in an image extension, whatever its case, stays as
\* written; any other link [text](url) becomes *text (url)* with the
\* protocol left out; plain text stays
ClaimedPart(p) ==
    IF p.kind = "plain" THEN p.s
    ELSE IF p.bang \/ Lower(p.ending) \in
                { <<".","p","n","g">>, <<".","j","p","g">>, <<".","j","p","e","g">>,
                  <<".","g","i","f">>, <<".","s","v","g">>, <<".","w","e","b","p">>,
                  <<".","b","m","p">> }
    THEN PartSource(p)
    ELSE <<"*">> \o p.text \o <<" ", "(">> \o p.stem \o p.ending \o <<")", "*">>
RECURSIVE ClaimedLine(_,_)
ClaimedLine(ps, k) ==
    IF k > Len(ps) THEN <<>> ELSE ClaimedPart(ps[k]) \o ClaimedLine(ps, k + 1)
\* C7: the link-conversion rule rewrites every [text](url) of the line to
\* *text (url)* without the http:// or https:// of the url, and leaves every
\* image-syntax link and every link to an image file as written.
C7_LinksConverted ==
    pc = "rule_done" => rule_out = ClaimedLine(link_parts, 1)
\* a line with a converted https link and an untouched upper-case image link
C7_Witness ==
    /\ pc = "rule_done"
    /\ \E k \in 1..Len(link_parts) :
           /\ link_parts[k].kind = "link" /\ ~link_parts[k].bang
           /\ link_parts[k].protocol = <<"h","t","t","p","s",":","/","/">>
           /\ link_parts[k].ending = <<>>
    /\ \E k \in 1..Len(link_parts) :
           /\ link_parts[k].kind = "link" /\ ~link_parts[k].bang
           /\ link_parts[k].ending = <<".", "P", "N", "G">>
    /\ rule_out # rule_in

(***************************************************************************)
(* One line through the rules of the per-line pass: the body of the loop   *)
(* of simplify_markdown_file from normalize_headers to the append, for a   *)
(* line outside fences that reveal-label removal keeps.  line is rule_out, *)
(* i the number of the rule that runs next.                                *)
(***************************************************************************)
\* the most parts a line is put together from
MaxLineParts == 3
\* the parts:
\*   '> '              a blockquote prefix
\*   'http://'         a protocol
\*   '-> x'            an operator token and a word
\*   'a_b '            an identifier with an underscore
\*   '![](a_b.png)'    an image reference with an empty alt text
\*   '![a](a_b.png)'   an image reference with an alt text
LineParts == {
    <<">", " ">>,
    <<"h", "t", "t", "p", ":", "/", "/">>,
    <<"-", ">", " ", "x">>,
    <<"a", "_", "b", " ">>,
    <<"!", "[", "]", "(", "a", "_", "b", ".", "p", "n", "g", ")">>,
    <<"!", "[", "a", "]", "(", "a", "_", "b", ".", "p", "n", "g", ")">> }
RECURSIVE Concat(_,_)
Concat(ps, k) == IF k > Len(ps) THEN <<>> ELSE ps[k] \o Concat(ps, k + 1)
\* the loop has a line that is no fence delimiter, outside a fence, and
\* remove_show_answer_headers has returned it
LineInit ==
    /\ pc = "rules"
    /\ link_parts \in UNION {[1..n -> LineParts] : n \in 0..MaxLineParts}
    /\ rule_in = Concat(link_parts, 1)
    /\ ~IsFenceLine(rule_in)
    /\ ~remove_show_answer_headers_drops(rule_in)
    /\ rule_out = rule_in
    /\ i = 1
    /\ levels_up = 0
    /\ lines = <<>> /\ in_code_block = FALSE
    /\ RewriteIdle
    /\ SplitIdle
    /\ BatchIdle
    /\ open_handles = {}
    /\ target_files = <<>>
\* line = rule(line), for the rule whose turn it is
ApplyNextRule ==
    /\ pc = "rules"
    /\ i <= RuleCount
    /\ rule_out' = ApplyRule(i, rule_out)
    /\ i' = i + 1
    /\ UNCHANGED <<pc, link_parts, rule_in, levels_up, lines, in_code_block,
                   rewriteVars, splitVars, batchVars>>
    /\ UNCHANGED fileVars
\* processed_lines.append(line)
AppendLine ==
    /\ pc = "rules"
    /\ i > RuleCount
    /\ processed_lines' = Append(processed_lines, rule_out)
    /\ pc' = "rule_done"
    /\ UNCHANGED <<link_parts, rule_in, rule_out, levels_up, lines, i,
                   in_code_block, doc, result, in_details, in_summary,
                   summary_content, parent_type, parent_indent, nested_counter,
                   written, splitVars, batchVars>>
    /\ UNCHANGED fileVars
LineSpec == LineInit /\ [][ApplyNextRule \/ AppendLine]_vars

\* the rules by their place in the pass
OperatorRule == 12
TermRule == 14
\* the rule that runs now
RuleRuns(n) == pc = "rules" /\ i = n /\ i' = n + 1
\* operator n of the list has a standalone token in s
HasOperatorToken(s) ==
    \E n \in 1..Len(operators) : \E j \in 1..Len(s) : OpMatchEnd(operators[n], s, j) >= j

\* C23 as stated: blockquote stripping runs before operator quoting, so when
\* operator quoting runs the line never starts with a blockquote prefix, its
\* exemption is never taken, and an operator token of a line that was a
\* blockquote in the input is wrapped in quote characters.
C23_ExemptionNeverTaken ==
    [][RuleRuns(OperatorRule) =>
        /\ ~IsBlockquote(rule_out)
        /\ (IsBlockquote(rule_in) /\ HasOperatorToken(rule_out)) =>
              rule_out' = QuoteOps(rule_out, 1) /\ rule_out' # rule_out]_vars
\* the indexes where an image reference ![alt]( starts in s, alt text of any
\* length
ImageStarts(s) ==
    {j \in 1..Len(s) : MatchAt(s, j, <<"!", "[">>)
                       /\ LET b == SkipWhile(NotRBracket, s, j + 2)
                          IN MatchAt(s, b, <<"]", "(">>)
                             /\ SkipWhile(NotRParen, s, b + 2) <= Len(s)}
\* the characters between ( and ) of the image reference that starts at j
ImagePath(s, j) ==
    LET b == SkipWhile(NotRBracket, s, j + 2)
    IN SubSeq(s, b + 2, SkipWhile(NotRParen, s, b + 2) - 1)
\* the paths of the image references of s, from left to right
RECURSIVE ImagePathsFrom(_,_)
ImagePathsFrom(s, j) ==
    IF j > Len(s) THEN <<>>
    ELSE IF j \in ImageStarts(s) THEN <<ImagePath(s, j)>> \o ImagePathsFrom(s, j + 1)
    ELSE ImagePathsFrom(s, j + 1)

\* C24: the technical-term rule never changes the path of an image reference
\* ![alt](path), whatever the alt text, an empty one included.
C24_ImagePathsKept ==
    [][RuleRuns(TermRule) =>
        ImagePathsFrom(rule_out', 1) = ImagePathsFrom(rule_out, 1)]_vars

(***************************************************************************)
(* Path adjustment on one line: adjust_relative_path applied to a line put *)
(* together from parts, with levels_up levels between source and target.   *)
(***************************************************************************)
\* the most parts a line of a section is made of
MaxAdjustParts == 2
\* the deepest target directory under the source directory
MaxLevelsUp == 2
PathPrefixes == { <<>>, <<".", "/">>, <<".", ".", "/">>, <<"/">>,
                  <<"h","t","t","p",":","/","/">>,
                  <<"h","t","t","p","s",":","/","/">> }
\* the endings of the paths: two image extensions, one in upper case, and
\* the extension of a document
PathEndings == { <<".", "p", "n", "g">>, <<".", "S", "V", "G">>, <<".", "m", "d">> }
PathParts == [kind : {"link"}, bang : BOOLEAN, text : { <<"x">> },
              prefix : PathPrefixes, stem : { <<"i", "m", "g">> },
              ending : PathEndings]
AdjustParts == PlainParts \cup PathParts
\* a part as it is written on the line
PathPartSource(p) ==
    IF p.kind = "plain" THEN p.s
    ELSE (IF p.bang THEN <<"!">> ELSE <<>>) \o <<"[">> \o p.text \o <<"]", "(">>
         \o p.prefix \o p.stem \o p.ending \o <<")">>
RECURSIVE LineOfPathParts(_,_)
LineOfPathParts(ps, k) ==
    IF k > Len(ps) THEN <<>> ELSE PathPartSource(ps[k]) \o LineOfPathParts(ps, k + 1)

AdjustInit ==
    /\ pc = "adjust"
    /\ link_parts \in UNION {[1..n -> AdjustParts] : n \in 0..MaxAdjustParts}
    /\ rule_in = LineOfPathParts(link_parts, 1)
    /\ rule_out = <<>>
    /\ levels_up \in 0..MaxLevelsUp
    /\ lines = <<>> /\ i = 1 /\ in_code_block = FALSE
    /\ RewriteIdle
    /\ SplitIdle
    /\ BatchIdle
    /\ open_handles = {}
    /\ target_files = <<>>
\* adjusted_line = self.adjust_relative_path(line, levels_up)
AdjustPath ==
    /\ pc = "adjust"
    /\ rule_out' = adjust_relative_path(rule_in, levels_up)
    /\ pc' = "adjust_done"
    /\ UNCHANGED <<link_parts, rule_in, levels_up, lines, i, in_code_block,
                   rewriteVars, splitVars, batchVars>>
    /\ UNCHANGED fileVars
AdjustSpec == AdjustInit /\ [][AdjustPath]_vars

\* the path of the part is relative: it starts with none of '/', 'http://'
\* and 'https://'
IsRelativePart(p) == p.prefix \in { <<>>, <<".", "/">>, <<".", ".", "/">> }
\* the path of the part ends in a recognized image extension
HasImageEnding(p) ==
    Lower(p.ending) \in
        { <<".","p","n","g">>, <<".","j","p","g">>, <<".","j","p","e","g">>,
          <<".","g","i","f">>, <<".","s","v","g">>, <<".","w","e","b","p">>,
          <<".","b","m","p">> }
\* n copies of '../'
ParentDirs(n) == [k \in 1..(3 * n) |-> IF k % 3 = 0 THEN "/" ELSE "."]
\* what C12 says a part becomes with n levels: in a relative path with an
\* image extension a leading './' is replaced by n copies of '../', a path
\* without directory prefix gets them prepended and a path with a leading
\* '../' stays; plain text and absolute paths and urls stay
AdjustedPart(p, n) ==
    IF p.kind = "plain" \/ ~IsRelativePart(p) \/ p.prefix = <<".", ".", "/">>
    THEN PathPartSource(p)
    ELSE (IF p.bang THEN <<"!">> ELSE <<>>) \o <<"[">> \o p.text \o <<"]", "(">>
         \o ParentDirs(n) \o p.stem \o p.ending \o <<")">>
RECURSIVE AdjustedLine(_,_,_)
AdjustedLine(ps, n, k) ==
    IF k > Len(ps) THEN <<>>
    ELSE AdjustedPart(ps[k], n) \o AdjustedLine(ps, n, k + 1)
\* every link of the line whose path is relative has an image extension
OnlyImagePaths(ps) ==
    \A k \in 1..Len(ps) :
        (ps[k].kind = "link" /\ IsRelativePart(ps[k])) => HasImageEnding(ps[k])
C13_NonImageLinksUnchanged ==
    (pc = "adjust_done" /\ \A k \in 1..Len(link_parts) :
                               link_parts[k].kind = "link" => ~HasImageEnding(link_parts[k]))
        => rule_out = rule_in

(***************************************************************************)
(* Properties of the section splitter, checked under SplitSpec             *)
(***************************************************************************)
\* the names of the files written, in order
RECURSIVE FileNames(_,_)
FileNames(fs, k) ==
    IF k > Len(fs) THEN <<>> ELSE <<fs[k].name>> \o FileNames(fs, k + 1)
\* the splitter is through with 01_course.md holding the scenario document
ScenarioSplit ==
    pc = "split_done" /\ lines = ScenarioDoc /\ filename = CourseFile

\* C8 as claimed: the scenario document in 01_course.md is split into
\* exactly two sections, the first with the title, the intro and the whole
\* '## A' section, the second starting at '## B', in 01_01.md and 01_02.md.
C8_TwoSections ==
    ScenarioSplit =>
        /\ Len(sections) = 2
        /\ sections[1] = SubSeq(ScenarioDoc, 1, 7)
        /\ sections[2][1] = <<"#", "#", " ", "B", "\n">>
        /\ FileNames(created_files, 1) =
               << <<"0", "1", "_", "0", "1", ".", "m", "d">>,
                  <<"0", "1", "_", "0", "2", ".", "m", "d">> >>
\* C8 as amended: the scenario document in 01_course.md is split into
\* exactly three sections, the title with the intro, the '## A' section and
\* the '## B' section, in 01_01.md, 01_02.md and 01_03.md.
C8_ThreeSections ==
    ScenarioSplit =>
        /\ sections = << SubSeq(ScenarioDoc, 1, 4), SubSeq(ScenarioDoc, 5, 7),
                         SubSeq(ScenarioDoc, 8, 9) >>
        /\ FileNames(created_files, 1) =
               << <<"0", "1", "_", "0", "1", ".", "m", "d">>,
                  <<"0", "1", "_", "0", "2", ".", "m", "d">>,
                  <<"0", "1", "_", "0", "3", ".", "m", "d">> >>
\* the scenario was split and its files are written
C8_Witness == ScenarioSplit /\ Len(created_files) = Len(sections) /\ sections # <<>>

\* the stripped text of s starts with '## '
IsSecondLevel(s) == StartsWith(Strip(s), <<"#", "#", " ">>)
\* the stripped text of s starts with a fence marker
IsDelimiter(s) ==
    \/ StartsWith(Strip(s), <<Tick, Tick, Tick>>)
    \/ StartsWith(Strip(s), <<Tilde, Tilde, Tilde>>)
\* the fence flag at line k of ls: an odd number of delimiters before it
FlagAt(ls, k) == Cardinality({j \in 1..(k - 1) : IsDelimiter(ls[j])}) % 2 = 1
\* line k of ls is a second-level heading met with the flag false
StartsSection(ls, k) == IsSecondLevel(ls[k]) /\ ~FlagAt(ls, k)
\* the index where the section that holds line n of ls begins: the last
\* section start up to n, the first line when there is none
SectionStartBefore(ls, n) ==
    IF \E k \in 1..n : StartsSection(ls, k)
    THEN CHOOSE k \in 1..n :
             StartsSection(ls, k) /\ \A m \in (k + 1)..n : ~StartsSection(ls, m)
    ELSE 1
\* C9: while the splitter reads a file the fence flag is the parity of the
\* delimiters read and the current section is the lines read since the last
\* second-level heading met with the flag false: a section begins there and
\* nowhere else, so not at a '## ' line inside a fence, not at a deeper
\* heading, and a delimiter line goes to the current section.  In a section
\* that is emitted a second-level heading after the first line is inside a
\* fence.
C9_SectionsBeginAtHeadings ==
    /\ pc = "parse" =>
           /\ in_code_block = FlagAt(lines, i)
           /\ current_section =
                  SubSeq(lines, SectionStartBefore(lines, i - 1), i - 1)
    /\ \A n \in 1..Len(sections) :
           \A k \in 2..Len(sections[n]) :
               IsSecondLevel(sections[n][k]) => FlagAt(sections[n], k)
\* a file was read that has a section start, a '## ' line inside a fence
\* and a third-level heading or a delimiter
C9_Witness ==
    /\ pc = "split_done"
    /\ \E k \in 1..Len(lines) : StartsSection(lines, k) /\ k > 1
    /\ \E k \in 1..Len(lines) : IsSecondLevel(lines[k]) /\ FlagAt(lines, k)
    /\ Len(sections) = 2

\* the section has a line that is not blank
HasNonBlank(section) == \E k \in 1..Len(section) : Strip(section[k]) # <<>>
\* the candidate sections of ls[b..]: the runs of lines that end before the
\* next section start or at the end of the input
RECURSIVE Candidates(_,_,_)
Candidates(ls, b, k) ==
    IF k > Len(ls) THEN (IF b <= Len(ls) THEN <<SubSeq(ls, b, Len(ls))>> ELSE <<>>)
    ELSE IF k > b /\ StartsSection(ls, k)
    THEN <<SubSeq(ls, b, k - 1)>> \o Candidates(ls, k, k + 1)
    ELSE Candidates(ls, b, k + 1)
\* C10: the sections emitted are the candidate sections that have a
\* non-blank line, in order: none is blank, none of those is left out, and a
\* file with a non-blank line and no second-level heading gives one section,
\* the whole file.
C10_NonBlankSectionsEmitted ==
    /\ \A n \in 1..Len(sections) : HasNonBlank(sections[n])
    /\ pc \in {"save", "split_done"} =>
           /\ sections = SelectSeq(Candidates(lines, 1, 1), HasNonBlank)
           /\ (HasNonBlank(lines) /\ \A k \in 1..Len(lines) : ~IsSecondLevel(lines[k]))
                  => sections = <<lines>>
\* a file was split whose first candidate section is blank and dropped
\* while a later one is emitted
C10_Witness ==
    /\ pc = "split_done"
    /\ Len(Candidates(lines, 1, 1)) > Len(sections)
    /\ Len(sections) >= 1
    /\ ~HasNonBlank(Candidates(lines, 1, 1)[1])

\* the name of a source file without its extension '.md'
NameWithoutExtension(name) == SubSeq(name, 1, Len(name) - 3)
\* the leading digit run of s
LeadingDigitRun(s) ==
    LET n == CHOOSE n \in 0..Len(s) :
                 /\ \A k \in 1..n : s[k] \in Digits
                 /\ (n = Len(s) \/ s[n + 1] \notin Digits)
    IN SubSeq(s, 1, n)
\* the prefix the files of a source file share: the leading digit run of the
\* name without extension, its first two characters when there is none
ClaimedPrefix(name) ==
    IF LeadingDigitRun(NameWithoutExtension(name)) # <<>>
    THEN LeadingDigitRun(NameWithoutExtension(name))
    ELSE SubSeq(NameWithoutExtension(name), 1, 2)
\* k below 100 written with two digits
PaddedIndex(k) ==
    LET d == <<"0", "1", "2", "3", "4", "5", "6", "7", "8", "9">>
    IN <<d[(k \div 10) + 1], d[(k % 10) + 1]>>
\* the sections of the file that are emitted, in document order
EmittedSections == SelectSeq(Candidates(lines, 1, 1), HasNonBlank)
\* the text of a section: its lines one after the other
RECURSIVE Flatten(_,_)
Flatten(ls, k) == IF k > Len(ls) THEN <<>> ELSE ls[k] \o Flatten(ls, k + 1)
\* C11: the k-th file written holds the k-th emitted section of the source
\* file, k counted from 1 over the emitted sections only, and is named
\* {prefix}_{k with two digits}.md, the prefix being the leading digit run of
\* the source file name without extension or its first two characters; when
\* the splitter is through there is one file for every emitted section.
C11_SectionFileNames ==
    /\ pc \in {"save", "split_done"} =>
           \A k \in 1..Len(created_files) :
               /\ k <= Len(EmittedSections)
               /\ created_files[k].name =
                      ClaimedPrefix(filename) \o <<"_">> \o PaddedIndex(k)
                          \o <<".", "m", "d">>
               /\ calculate_path_adjustment(source_dir, target_dir) = 0 =>
                      created_files[k].content = Flatten(EmittedSections[k], 1)
    /\ pc = "split_done" => Len(created_files) = Len(EmittedSections)
\* a file whose name starts with one digit was split: its first candidate
\* section is blank and has no file, and two files are written
C11_Witness ==
    /\ pc = "split_done"
    /\ filename = SqlFile
    /\ Len(created_files) = 2
    /\ ~HasNonBlank(Candidates(lines, 1, 1)[1])
\* the text written for section sec with n levels when the lines under a
\* true fence flag are written as they are
RECURSIVE FencedKept(_,_,_)
FencedKept(sec, n, k) ==
    IF k > Len(sec) THEN <<>>
    ELSE (IF FlagAt(sec, k) THEN sec[k] ELSE adjust_relative_path(sec[k], n))
         \o FencedKept(sec, n, k + 1)
\* C16: in the files the splitter writes every line that was read with the
\* fence flag true is written unchanged, whatever levels_up is: path
\* adjustment is not applied inside fences.
C16_FencedLinesNotAdjusted ==
    \A k \in 1..Len(created_files) :
        created_files[k].content =
            FencedKept(sections[k],
                       calculate_path_adjustment(source_dir, target_dir), 1)

(***************************************************************************)
(* Properties of a batch and of files in sequence, checked under BatchSpec *)
(* and SeqSpec                                                             *)
(***************************************************************************)
\* C14: when the batch is through, every file whose own processing does not
\* fail was processed: a failure is confined to the file it happens in, in
\* the same directory and in the other directories.
C14_FailureConfinedToFile ==
    pc = "batch_done" =>
        \A d \in 1..Len(directories) :
            \A f \in 1..Len(directories[d]) :
                ~directories[d][f].fails => <<d, f>> \in handled

MaxDirFiles == 2
\* the longest source file of the directory
MaxDirLen == 2
BasicsFile == <<"0", "1", "_", "b", "a", "s", "i", "c", "s", ".", "m", "d">>
NothingFile == <<"n", "o", "t", "h", "i", "n", "g", ".", "m", "d">>
\* the .md files a source directory may hold, in the order sorted() gives
DirNames == <<BasicsFile, CourseFile, SqlFile, NotesFile, NothingFile>>
\* the lines of the files of the directory
DirCorpus == {
    <<"#", "#", " ", "A", "\n">>,
    <<"t", "\n">> }
DirDocs == UNION {[1..n -> DirCorpus] : n \in 0..MaxDirLen}
\* the members of a set of positions, smallest first
RECURSIVE Ascending(_)
Ascending(S) ==
    IF S = {} THEN <<>>
    ELSE LET m == CHOOSE k \in S : \A j \in S : k <= j
         IN <<m>> \o Ascending(S \ {m})
DirInit ==
    /\ pc = "parse"
    /\ \E S \in SUBSET (1..Len(DirNames)) :
           /\ Cardinality(S) \in 1..MaxDirFiles
           /\ \E ds \in [1..Cardinality(S) -> DirDocs] :
                  md_files = [k \in 1..Cardinality(S) |->
                                 [filename |-> DirNames[Ascending(S)[k]],
                                  lines |-> ds[k]]]
    /\ file_idx = 1
    /\ filename = md_files[1].filename
    /\ lines = md_files[1].lines
    /\ \E src \in Sources :
           /\ src.filename = CourseFile
           /\ source_dir = src.source_dir
           /\ target_dir = src.target_dir
    /\ i = 1
    /\ in_code_block = ParseInit.in_code_block
    /\ sections = ParseInit.sections
    /\ current_section = ParseInit.current_section
    /\ created_files = <<>>
    /\ RewriteIdle
    /\ RuleIdle
    /\ directories = <<>> /\ dir_idx = 1
    /\ total_processed = 0 /\ handled = {}
    /\ open_handles = {}
    /\ target_files = <<>>
DirSpec ==
    DirInit /\ [][\/ ParseLoop
                  \/ ParseReturn
                  \/ SaveSection
                  \/ SaveReturn
                  \/ NextSourceFile]_vars

(***************************************************************************)
\* the number of leading whitespace characters of s
Indentation(s) == Len(s) - Len(LStrip(s))
\* s is a numbered list item, a bulleted list item, a list item
IsNumberedLine(s) == NumberedPrefixEnd(LStrip(s)) > 0
IsBulletedLine(s) == BulletMarkerEnd(LStrip(s)) > 0
IsListLine(s) == IsNumberedLine(s) \/ IsBulletedLine(s)
\* the text of the list item s after its marker
ItemText(s) ==
    IF IsNumberedLine(s) THEN From(LStrip(s), NumberedPrefixEnd(LStrip(s)) + 1)
    ELSE From(LStrip(s), BulletMarkerEnd(LStrip(s)) + 1)
\* line k of ls records a parent: a list item without indentation
RecordsParent(ls, k) == IsListLine(ls[k]) /\ Indentation(ls[k]) = 0
\* line k of ls clears the parent context: a line without indentation that
\* is no list item
ClearsParent(ls, k) == ~IsListLine(ls[k]) /\ Indentation(ls[k]) = 0
\* the index of the parent of line k of ls: the last line before k that
\* records a parent with no clearing line after it, 0 when there is none
ParentOf(ls, k) ==
    LET ms == {m \in 1..(k - 1) :
                  /\ RecordsParent(ls, m)
                  /\ \A n \in (m + 1)..(k - 1) :
                         ~RecordsParent(ls, n) /\ ~ClearsParent(ls, n)}
    IN IF ms = {} THEN 0 ELSE CHOOSE m \in ms : TRUE
\* the number of list items after the parent of line k and before line k
NestedBefore(ls, k) ==
    Cardinality({m \in (ParentOf(ls, k) + 1)..(k - 1) : IsListLine(ls[m])})
\* the unifier takes line i
UnifyTakes == pc = "unify" /\ i <= Len(lines) /\ i' = i + 1

\* C18, the step: a list item with indentation under a parent is emitted
\* with its indentation in spaces, the marker of the parent's type and its
\* own text: '- ' under a bulleted parent, 'j. ' under a numbered parent for
\* the j-th nested item since the parent was recorded.
C18_NestedStep ==
    (/\ UnifyTakes
     /\ IsListLine(lines[i]) /\ Indentation(lines[i]) > 0
     /\ ParentOf(lines, i) > 0) =>
        result' = Append(result,
            [k \in 1..Indentation(lines[i]) |-> " "]
            \o (IF IsBulletedLine(lines[ParentOf(lines, i)])
                THEN <<"-", " ">>
                ELSE IntToStr(NestedBefore(lines, i) + 1) \o <<".", " ">>)
            \o ItemText(lines[i]))
\* C18, the context: the parent context is established exactly when the
\* line has a parent, and then the unifier holds the parent's type, the
\* parent's indentation and, under a numbered parent, the number of the next
\* nested item.
C18_ContextIsParent ==
    (pc = "unify" /\ i <= Len(lines) + 1) =>
        IF ParentOf(lines, i) = 0 THEN parent_type = "None"
        ELSE /\ parent_type = (IF IsNumberedLine(lines[ParentOf(lines, i)])
                               THEN "numbered" ELSE "bullet")
             /\ parent_indent = Indentation(lines[ParentOf(lines, i)])
             /\ IsNumberedLine(lines[ParentOf(lines, i)]) =>
                    nested_counter = NestedBefore(lines, i) + 1
\* C18: every nested list item met under an established parent is emitted
\* with the parent's marker type and its own amount of indentation; under a
\* numbered parent the nested items are numbered 1, 2, 3, ... from the
\* parent on, the count starting again at every new parent.
C18_NestedItemsTakeParentType ==
    /\ []C18_ContextIsParent
    /\ [][C18_NestedStep]_vars
\* the unifier is through with a numbered parent followed by three nested
\* items, which came out numbered 1, 2, 3
C18_Witness ==
    /\ pc = "lines"
    /\ doc = << <<"1", ".", " ", "a">>, <<" ", " ", "-", " ", "b">>,
                <<"\t", "-", " ", "d">>, <<" ", " ", "3", ".", " ", "c">> >>
    /\ lines = << <<"1", ".", " ", "a">>, <<" ", " ", "1", ".", " ", "b">>,
                  <<" ", "2", ".", " ", "d">>, <<" ", " ", "3", ".", " ", "c">> >>

\* the unifier clears the parent context in this step
ContextCleared ==
    parent_type' = "None" /\ parent_indent' = 0 /\ nested_counter' = 1
\* line k of ls is an indented list item and, before it, line m is the last
\* line that is of kind Sep or a list item without indentation
AfterSeparator(Sep(_), ls, k) ==
    /\ IsListLine(ls[k]) /\ Indentation(ls[k]) > 0
    /\ \E m \in 1..(k - 1) :
           /\ Sep(ls[m])
           /\ \A n \in (m + 1)..(k - 1) : ~RecordsParent(ls, n)
\* a line that is no list item clears the context if and only if its
\* indentation, 0 for a line of kind Sep, is at most the parent's; an
\* indented list item after a line of kind Sep is emitted as it is
ClearingStep(Sep(_)) ==
    UnifyTakes =>
        /\ ~IsListLine(lines[i]) =>
               IF (IF Sep(lines[i]) THEN 0 ELSE Indentation(lines[i])) <= parent_indent
               THEN ContextCleared
               ELSE UNCHANGED <<parent_type, parent_indent, nested_counter>>
        /\ AfterSeparator(Sep, lines, i) => result' = Append(result, lines[i])
\* the line is blank: it holds nothing but whitespace
IsBlankLine(s) == Strip(s) = <<>>
\* the line is empty
IsEmptyLine(s) == s = <<>>
\* C19 as claimed: a non-list line clears the parent context if and only if
\* its indentation is at most the parent's, a deeper one leaves type,
\* indentation and counter unchanged; a blank line counts as a non-list line
\* of indentation 0, and after a blank line indented list items are emitted
\* unmodified until a list item without indentation appears.
C19_BlankLinesClear == [][ClearingStep(IsBlankLine)]_vars
\* C19 as amended: the same with empty lines in the place of blank lines; a
\* line of whitespace only has the indentation of its length.
C19_EmptyLinesClear == [][ClearingStep(IsEmptyLine)]_vars
\* the unifier is through with a bulleted parent, indented text, a nested
\* item that took the parent's marker, an empty line and a nested item that
\* was emitted as it is
C19_Witness ==
    /\ pc = "lines"
    /\ doc = << <<"-", " ", "a">>, <<" ", " ", "t">>,
                <<" ", " ", "3", ".", " ", "c">>, <<>> >>
    /\ lines = << <<"-", " ", "a">>, <<" ", " ", "t">>,
                  <<" ", " ", "-", " ", "c">>, <<>> >>
    /\ parent_type = "None"

\* C20, the step: an indented list item met while no parent context is
\* established is emitted as it is and leaves the context as it was, so it
\* establishes none.
C20_OrphanStep ==
    (/\ UnifyTakes
     /\ IsListLine(lines[i]) /\ Indentation(lines[i]) > 0
     /\ ParentOf(lines, i) = 0) =>
        /\ result' = Append(result, lines[i])
        /\ UNCHANGED <<parent_type, parent_indent, nested_counter>>
        /\ parent_type = "None"
\* C20, no error: the unifier emits one line for every line it takes and
\* returns as many lines as it read.
C20_PassCompletes ==
    /\ pc = "unify" => Len(result) = i - 1
    /\ pc = "lines" => Len(lines) = Len(doc)
\* C20: an indented list item met while no parent context is established is
\* emitted unmodified, establishes no parent context and stops nothing.
C20_OrphanItemsPassThrough ==
    /\ []C20_PassCompletes
    /\ [][C20_OrphanStep]_vars
\* the unifier is through with two indented items at the start, emitted as
\* they were, the second not taking the first for a parent, then a
\* bulleted parent and a nested item that took its marker
C20_Witness ==
    /\ pc = "lines"
    /\ doc = << <<" ", " ", "3", ".", " ", "c">>, <<" ", " ", "-", " ", "b">>,
                <<"-", " ", "a">>, <<" ", " ", "3", ".", " ", "c">> >>
    /\ lines = << <<" ", " ", "3", ".", " ", "c">>, <<" ", " ", "-", " ", "b">>,
                  <<"-", " ", "a">>, <<" ", " ", "-", " ", "c">> >>


(***************************************************************************)
(* Properties of the collapsible-block expander, checked under DetailsSpec *)
(***************************************************************************)
HasBlockOpen(s) == Contains(Lower(s), DetailsOpen)
HasSummaryOpen(s) == Contains(Lower(s), SummaryOpen)
HasSummaryClose(s) == Contains(Lower(s), SummaryClose)
HasBlockClose(s) == Contains(Lower(s), DetailsClose)
\* the line with every block-open marker deleted
WithoutBlockOpen(s) == ReSub(DetailsOpenEnd, Deleted, s)
\* the expander is at line i of the document
ExpanderTakes == pc = "details" /\ i <= Len(lines) /\ i' = i + 1

\* C21: the expander's output is its input with these changes only: a line
\* with a block-open marker is replaced by itself without the marker, or
\* dropped if only whitespace remains; a line with a summary-open,
\* summary-close or block-close marker is dropped; every other line is
\* emitted unchanged, in its place.
C21_ExpanderOutput ==
    [][ExpanderTakes =>
        LET line == lines[i] IN
        /\ HasBlockOpen(line) =>
              result' = IF Strip(WithoutBlockOpen(line)) = <<>> THEN result
                        ELSE Append(result, WithoutBlockOpen(line))
        /\ (HasSummaryOpen(line) \/ HasSummaryClose(line) \/ HasBlockClose(line)) =>
              result' = result
        /\ ~(HasBlockOpen(line) \/ HasSummaryOpen(line) \/ HasSummaryClose(line)
             \/ HasBlockClose(line)) =>
              result' = Append(result, line)]_vars


\* the index where marker p first starts in s, case ignored; 0 if nowhere
FirstAt(s, p) ==
    LET at == {j \in 1..Len(s) : MatchAtCI(s, j, p)}
    IN IF at = {} THEN 0 ELSE CHOOSE j \in at : \A k \in at : j <= k
\* line k of ls lies after a summary-open marker that no summary-close
\* marker has matched yet, and the matching marker comes at k or later
InsideLabel(ls, k) ==
    /\ \E j \in 1..(k - 1) :
          /\ HasSummaryOpen(ls[j])
          /\ \A m \in j..(k - 1) : ~HasSummaryClose(ls[m])
    /\ \E m \in k..Len(ls) : HasSummaryClose(ls[m])
\* the part of the summary label that line k of ls holds
LabelOn(ls, k) ==
    LET s == ls[k]
        o == FirstAt(s, SummaryOpen)
        from == IF o > 0 THEN o + Len(SummaryOpen) ELSE 1
        rest == From(s, from)
        c == FirstAt(rest, SummaryClose)
    IN IF o = 0 /\ ~InsideLabel(ls, k) THEN <<>>
       ELSE IF o > 0 /\ c = 0 /\ ~(\E m \in (k + 1)..Len(ls) : HasSummaryClose(ls[m]))
       THEN <<>>
       ELSE Strip(IF c > 0 THEN SubSeq(rest, 1, c - 1) ELSE rest)

\* C22: the text of a block's summary label, on one line with its markers or
\* on lines between them, never appears in the expander's output.
C22_LabelDiscarded ==
    [][ExpanderTakes /\ LabelOn(lines, i) # <<>> =>
        \A k \in (Len(result) + 1)..Len(result') :
            ~Contains(result'[k], LabelOn(lines, i))]_vars


(***************************************************************************)
(* Properties of the per-line pass, checked under PassSpec                 *)
(***************************************************************************)
\* the pass is at line i
PassTakes == pc = "lines" /\ i <= Len(lines) /\ i' = i + 1
\* line i comes after an odd number of fence delimiters, or is a delimiter
FencedOrDelimiter == IsFenceLine(lines[i]) \/ FenceCount(lines, i - 1) % 2 = 1
\* the number of line breaks in the text written
LineBreaks(text) == CountChar(text, "\n")
\* every iteration leaves the lines emitted so far in place and emits no
\* line or one line; it emits no line only for a reveal label outside fences
C25_OneLinePerLine ==
    PassTakes =>
        /\ SubSeq(processed_lines', 1, Len(processed_lines)) = processed_lines
        /\ Len(processed_lines') \in {Len(processed_lines), Len(processed_lines) + 1}
        /\ Len(processed_lines') = Len(processed_lines) =>
              /\ remove_show_answer_headers_drops(lines[i])
              /\ ~FencedOrDelimiter
              /\ Strip(lines[i]) # <<>>
        /\ (remove_show_answer_headers_drops(lines[i]) /\ ~FencedOrDelimiter) =>
              Len(processed_lines') = Len(processed_lines)
\* no emitted line holds a line break, and the text written has one line for
\* every emitted line
C25_NoLineSplit ==
    /\ \A k \in 1..Len(processed_lines) : ~Contains(processed_lines[k], <<"\n">>)
    /\ pc = "done" /\ processed_lines # <<>> =>
          LineBreaks(written) = Len(processed_lines) - 1

\* C25: the per-line pass emits exactly one line, in input order, for every
\* line it receives except the lines reveal-label removal drops; no rule
\* splits or adds a line, blank lines are never dropped, and a line inside a
\* fence is never dropped even when it matches the reveal-label pattern.
C25_LineCountKept == [][C25_OneLinePerLine]_vars /\ []C25_NoLineSplit
\* the pass has ended on a document with a reveal label inside a fence, kept,
\* and a reveal label outside fences, dropped
C25_Witness ==
    /\ pc = "done"
    /\ doc = <<RevealLabel, <<Tick, Tick, Tick>>, RevealLabel>>
    /\ processed_lines = << <<Tick, Tick, Tick>>, RevealLabel >>


(***************************************************************************)
(* Properties of the file handles, checked under FileSpec                  *)
(***************************************************************************)
\* the content of the output the call works on is computed: all lines of
\* the rewrite, or the adjusted lines of section i of the parsed file
ContentComputed ==
    IF IsSplitterCall
    THEN /\ sections = parse_markdown_file(doc)
         /\ i \in 1..Len(sections)
         /\ rule_out = SectionContent(sections[i],
                           calculate_path_adjustment(source_dir, target_dir), 1)
    ELSE processed_lines = Rewrite(doc)
\* the output handle is held only after the input is read and released and
\* the content computed
C26_OutputAfterInput ==
    "output" \in open_handles =>
        /\ "input" \notin open_handles
        /\ pc \notin {"open_input", "read", "close_input"}
        /\ ContentComputed
\* a call that failed outside the write has left the rewrite's output as it
\* was, and the file of the section it worked on does not exist; the files
\* of the sections before are whole
C26_FailureLeavesOutput ==
    pc = "raised" =>
        IF IsSplitterCall
        THEN /\ Len(created_files) < i
             /\ \A k \in 1..Len(created_files) :
                    created_files[k].content =
                        SectionContent(sections[k],
                            calculate_path_adjustment(source_dir, target_dir), 1)
        ELSE created_files \in {<<>>, OldOutput}
\* a call that has ended holds no handle
C26_HandlesReleased == pc \in Ended => open_handles = {}
\* no output file changes in a step that neither starts nor ends with the
\* output handle held
C26_NoWriteWithoutHandle ==
    ("output" \notin open_handles /\ "output" \notin open_handles') =>
        UNCHANGED created_files

\* C26: for each output file the output handle is acquired only after the
\* input was read completely, the input handle released and the content of
\* the file computed; a failure while reading or transforming leaves the
\* output file neither created nor modified; every handle is released on
\* every exit path.
C26_ScopedHandles ==
    /\ [](C26_OutputAfterInput /\ C26_FailureLeavesOutput /\ C26_HandlesReleased)
    /\ [][C26_NoWriteWithoutHandle]_vars
\* the rewrite of a file failed during the transformation, and the output
\* file of an earlier run is as it was
C26_Witness ==
    /\ pc = "raised"
    /\ ~IsSplitterCall
    /\ lines # <<>>
    /\ processed_lines # <<>>
    /\ created_files = OldOutput


(***************************************************************************)
(* Conservation of lines by the splitter, checked under SplitSpec          *)
(***************************************************************************)
\* the index where the section that holds line n of ls ends
SectionEndAfter(ls, n) ==
    IF \E k \in (n + 1)..Len(ls) : StartsSection(ls, k)
    THEN (CHOOSE k \in (n + 1)..Len(ls) :
              StartsSection(ls, k) /\ \A m \in (n + 1)..(k - 1) : ~StartsSection(ls, m)) - 1
    ELSE Len(ls)
\* line n of ls lies in a section that has blank lines only
InBlankSection(ls, n) ==
    \A k \in SectionStartBefore(ls, n)..SectionEndAfter(ls, n) : Strip(ls[k]) = <<>>
\* the lines of ls[k..] outside the sections that have blank lines only
RECURSIVE KeptFrom(_,_)
KeptFrom(ls, k) ==
    IF k > Len(ls) THEN <<>>
    ELSE (IF InBlankSection(ls, k) THEN <<>> ELSE <<ls[k]>>) \o KeptFrom(ls, k + 1)
\* the number of lines in the sections before section n
RECURSIVE LinesBefore(_,_)
LinesBefore(secs, n) ==
    IF n <= 1 THEN 0 ELSE LinesBefore(secs, n - 1) + Len(secs[n - 1])
\* the place of line k of ls among the lines that are kept
KeptRank(ls, k) == Cardinality({j \in 1..k : ~InBlankSection(ls, j)})
\* the places <<n, m>> where the sections hold line k of ls: line m of
\* section n, at the rank of k among the lines kept
PlacesOf(secs, ls, k) ==
    {nm \in UNION {{<<n, m>> : m \in 1..Len(secs[n])} : n \in 1..Len(secs)} :
        /\ LinesBefore(secs, nm[1]) + nm[2] = KeptRank(ls, k)
        /\ secs[nm[1]][nm[2]] = ls[k]}

\* C27: the sections parse_markdown_file returns, one after the other, are
\* the input lines without the lines of the dropped blank-only sections;
\* every non-blank input line is in exactly one section; every section after
\* the first begins with a second-level heading.
C27_LinesConserved ==
    pc \in {"save", "split_done"} =>
        /\ Flatten(sections, 1) = KeptFrom(lines, 1)
        /\ \A k \in 1..Len(lines) :
               Strip(lines[k]) # <<>> =>
                   ~InBlankSection(lines, k) /\ Cardinality(PlacesOf(sections, lines, k)) = 1
        /\ \A n \in 2..Len(sections) :
               IsSecondLevel(sections[n][1]) /\ ~StartsWith(Strip(sections[n][1]), <<"#", "#", "#">>)
\* a file was parsed whose leading blank lines are dropped and which has
\* two sections or more
C27_Witness ==
    /\ pc = "split_done"
    /\ Len(sections) >= 2
    /\ lines # <<>>
    /\ Strip(lines[1]) = <<>>
    /\ Len(Flatten(sections, 1)) < Len(lines)


\* C28, the step: a list item with indentation leaves the parent context as
\* it is, but for the counter, which under a numbered parent is the number
\* the item gets and goes up by one whatever the depth of the item.
C28_IndentedItemStep ==
    (UnifyTakes /\ IsListLine(lines[i]) /\ Indentation(lines[i]) > 0) =>
        /\ parent_type' = parent_type
        /\ parent_indent' = parent_indent
        /\ IF parent_type = "numbered"
           THEN /\ nested_counter' = nested_counter + 1
                /\ result' = Append(result,
                       [k \in 1..Indentation(lines[i]) |-> " "]
                       \o IntToStr(nested_counter) \o <<".", " ">> \o ItemText(lines[i]))
           ELSE nested_counter' = nested_counter
\* C28, the step that records a parent (the context gets another type, or
\* keeps a type and starts its counter again): the line is a list item
\* without indentation
C28_ParentStep ==
    (/\ UnifyTakes
     /\ parent_type' # "None"
     /\ (parent_type' # parent_type \/ nested_counter' < nested_counter)) =>
        IsListLine(lines[i]) /\ Indentation(lines[i]) = 0

\* C28: the recorded parent indentation is 0 in every reachable state of the
\* unifier: only a list item without indentation is recorded as parent, an
\* item with indentation never is, and all items with indentation under one
\* numbered parent, at every depth, share one counter.
C28_ParentIndentZero ==
    /\ [](parent_indent = 0)
    /\ [][C28_IndentedItemStep /\ C28_ParentStep]_vars
\* the unifier is through with a numbered parent and two nested items of
\* different depth, which came out numbered 1 and 2
C28_Witness ==
    /\ pc = "lines"
    /\ doc = << <<"1", ".", " ", "a">>, <<"\t", "-", " ", "d">>,
                <<" ", " ", "-", " ", "b">> >>
    /\ lines = << <<"1", ".", " ", "a">>, <<" ", "1", ".", " ", "d">>,
                  <<" ", " ", "2", ".", " ", "b">> >>

(***************************************************************************)
(* Names of the section files of one directory, checked under DirSpec      *)
(***************************************************************************)
\* C29: within one run of the splitter over a source directory no output
\* file name is written more than once, so no section file of one source
\* file overwrites a section file of another
C29_NoNameWrittenTwice ==
    \A a, b \in 1..Len(target_files) :
        a # b => target_files[a] # target_files[b]

=========================================================================
